---- MODULE Spec2Model ----
(***************************************************************************)
(* A model of the lueur fault-injection proxy (lueur-cli).                 *)
(*                                                                         *)
(* Spec           the proxy dataplane: allow-list decision, forward and    *)
(*                CONNECT handlers, the configuration watcher, the         *)
(*                scenario runner and the task event bus.                  *)
(* SpecEvent      the two kinds of event handle, called directly.          *)
(* SpecBandwidth  one bandwidth-limited direction and its rate limiter.    *)
(***************************************************************************)
EXTENDS Integers, Sequences, FiniteSets, TLC

(***************************************************************************)
(* Bounds.                                                                 *)
(***************************************************************************)
MaxTasks == 2
MaxItems == 2
MaxApplied == 1
MaxHandles == 2
MaxCalls == 3
MaxBytes == 6
MaxRequest == 5
MaxPolls == 5
MaxDelay == 2
MaxFlow == 2
MaxConns == 4
MaxCount == 2
MaxRuns == 1
MaxValues == 2
MaxLookups == 3
MaxEmits == 3
MaxScenarioEvents == 1
MaxTaskEvents == 2
MaxClock == 4
MaxChunks == 2

\* How many configurations are sent over the watch channel.
MaxConfigs == 2

(***************************************************************************)
(* Values.                                                                 *)
(***************************************************************************)
FaultKinds == {"dns", "latency", "packetloss", "bandwidth", "jitter"}

Directions == {"ingress", "egress", "both"}

\* config.rs: ProxyConfig { fault: FaultConfig }, reduced to the fault kind
\* and its direction.
Config(k, d) == [kind |-> k, direction |-> d]

\* FaultConfig::default() is Latency(LatencySettings::default()), and
\* Direction::default() is Ingress.
DefaultConfig == Config("latency", "ingress")

Hosts == {"a:80", "b:80"}

\* The configurations and allow-lists the scenario items are drawn from.
ItemConfigs == {Config("latency", "ingress"), Config("bandwidth", "both")}

ItemUpstreams == {{}, {"a:80"}}

\* The host the scenario's calls target.
ItemTarget == "a:80"

\* The allow-list given on the command line (main.rs:57-59).
InitialUpstreams == {{}, {"b:80"}}

EventTypes == {"Started", "WithFault", "IpResolved", "FaultApplied", "TTFB",
               "ResponseReceived", "Completed", "Error"}

VARIABLES
    plugins,         \* ProxyState.plugins: the shared plugin list
    shared_config,   \* ProxyState.shared_config
    upstream_hosts,  \* ProxyState.upstream_hosts: the allow-list
    config_tx,       \* the watch channel: its value and its version
    watcher,         \* the configuration watcher task of run_proxy
    runner,          \* the scenario runner (execute_item)
    tasks,           \* the proxy's request handlers, in order of acceptance
    counter,         \* TaskManager.counter
    bus,             \* the events sent on the broadcast channel, in order
    handles,         \* the event handles created directly on the TaskManager
    bw,              \* a bandwidth-limited stream wrapper and its limiter
    lat,             \* a latency stream wrapper and its timer
    flow,            \* a tunnel's two streams, their wrappers and their bytes
    listener,        \* the accept loop of run_proxy and its shutdown channel
    scn,             \* a scenario being expanded and executed item by item
    http,            \* one forward request and its response, with headers
    dns,             \* a client whose resolver carries the DNS fault
    sub,             \* the broadcast channel's buffer and one subscriber
    rep,             \* a report being saved and the file at its path
    sel,             \* a request's upstream and the allow-list it is looked up in
    jit,             \* a jitter stream wrapper and its timer
    pl,              \* a packet-loss stream wrapper and its chain
    join,            \* the scenario join task, its two channels and its queue
    tim,             \* one execute_request, the clock and its timing measurements
    bwp,             \* the bandwidth plugin on one forward request and its response
    xf,              \* a response going through apply_on_response, its reader and its buffer
    wr,              \* a stream wrapper of any of the four kinds, and what its last poll returned
    cfg,             \* a configuration being built, by which path, and the one installed
    lim,             \* a bandwidth limiter being built from a rate and a unit
    td               \* a CONNECT tunnel under the DNS plugin and the same tunnel in passthrough

dataVars == <<plugins, shared_config, upstream_hosts, config_tx, watcher,
              runner, tasks>>

eventVars == <<counter, bus>>

moreVars == <<rep, sel, jit, pl>>

\* The variables of the components added last, and those before them.
lateVars == <<join, tim, bwp, xf, wr, cfg, lim, td>>

earlyVars ==
    <<dataVars, eventVars, handles, bw, lat, flow, listener, scn, http, dns, sub,
      rep, sel, jit, pl>>

notJoin == <<earlyVars, tim, bwp, xf, wr, cfg, lim, td>>

notTim == <<earlyVars, join, bwp, xf, wr, cfg, lim, td>>

notBwp == <<earlyVars, join, tim, xf, wr, cfg, lim, td>>

notXf == <<earlyVars, join, tim, bwp, wr, cfg, lim, td>>

notWr == <<earlyVars, join, tim, bwp, xf, cfg, lim, td>>

notCfg == <<earlyVars, join, tim, bwp, xf, wr, lim, td>>

notLim == <<earlyVars, join, tim, bwp, xf, wr, cfg, td>>

notTd == <<earlyVars, join, tim, bwp, xf, wr, cfg, lim>>

notRep ==
    <<dataVars, eventVars, handles, bw, lat, flow, listener, scn, http, dns, sub,
      sel, jit, pl, lateVars>>

notSel ==
    <<dataVars, eventVars, handles, bw, lat, flow, listener, scn, http, dns, sub,
      rep, jit, pl, lateVars>>

notJit ==
    <<dataVars, eventVars, handles, bw, lat, flow, listener, scn, http, dns, sub,
      rep, sel, pl, lateVars>>

notPl ==
    <<dataVars, eventVars, handles, bw, lat, flow, listener, scn, http, dns, sub,
      rep, sel, jit, lateVars>>

\* The variables of the components that are modelled on their own.
auxVars ==
    <<lat, flow, listener, scn, http, dns, sub, rep, sel, jit, pl, lateVars>>

\* What each of these components leaves alone.
notLat ==
    <<dataVars, eventVars, handles, bw, flow, listener, scn, http, dns, sub,
      moreVars, lateVars>>

notFlow ==
    <<dataVars, eventVars, handles, bw, lat, listener, scn, http, dns, sub,
      moreVars, lateVars>>

notListener ==
    <<dataVars, eventVars, handles, bw, lat, flow, scn, http, dns, sub,
      moreVars, lateVars>>

notScn ==
    <<dataVars, eventVars, handles, bw, lat, flow, listener, http, dns, sub,
      moreVars, lateVars>>

notHttp ==
    <<dataVars, eventVars, handles, bw, lat, flow, listener, scn, dns, sub,
      moreVars, lateVars>>

notDns ==
    <<dataVars, eventVars, handles, bw, lat, flow, listener, scn, http, sub,
      moreVars, lateVars>>

notSub ==
    <<dataVars, counter, handles, bw, lat, flow, listener, scn, http, dns,
      moreVars, lateVars>>

\* The variables the dataplane leaves alone.
nonDataVars == <<handles, bw, auxVars>>

vars == <<dataVars, eventVars, handles, bw, auxVars>>

(***************************************************************************)
(* Helpers on sequences.                                                   *)
(***************************************************************************)
Range(s) == {s[i] : i \in 1..Len(s)}

Min(a, b) == IF a <= b THEN a ELSE b

RECURSIVE Sum(_)
Sum(s) == IF s = <<>> THEN 0 ELSE Head(s) + Sum(Tail(s))

RECURSIVE Flatten(_)
Flatten(ss) == IF ss = <<>> THEN <<>> ELSE Head(ss) \o Flatten(Tail(ss))

(***************************************************************************)
(* Event handles (event.rs).                                               *)
(***************************************************************************)
\* FaultTaskEvent::on_*: build the event with the handle's id and send it.
FaultTaskEventSend(b, id, types) ==
    b \o [i \in 1..Len(types) |-> [id |-> id, type |-> types[i]]]

\* A no-op handle that forwards to the sender it holds.
PassthroughTaskEventSendSends(b, id, types) ==
    b \o [i \in 1..Len(types) |-> [id |-> id, type |-> types[i]]]

\* PassthroughTaskEvent::on_*: return Ok(()) without sending.
PassthroughTaskEventSend(b, id, types) == b

\* A call of the ProxyTaskEvent methods named by types, in order, on a handle.
Emit(b, handle, id, types) ==
    IF handle = "passthrough"
    THEN PassthroughTaskEventSend(b, id, types)
    ELSE FaultTaskEventSend(b, id, types)

\* The handle a task is given: new_passthrough_event for a passthrough task,
\* new_fault_event for a faulted one.
NewHandle(passthrough) == IF passthrough THEN "passthrough" ELSE "fault"

EventsOf(id) == SelectSeq(bus, LAMBDA e : e.id = id)

TypesOf(id) == [i \in 1..Len(EventsOf(id)) |-> EventsOf(id)[i].type]

(***************************************************************************)
(* Plugins (plugin/builtin).                                               *)
(***************************************************************************)
\* load_builtin_plugins: one plugin, built from the settings of the
\* configuration's fault.
LoadBuiltinPlugins(config) == <<config>>

\* ProxyState::update_plugins: plugins.append(&mut new_plugins).
UpdatePlugins(current, new_plugins) == current \o new_plugins

is_ingress(d) == d = "ingress" \/ d = "both"

is_egress(d) == d = "egress" \/ d = "both"

\* FaultInjector::inject of each kind: the events one call sends.
InjectorInjectEvents(p) ==
    CASE p.kind = "latency" -> <<"WithFault">>
      [] p.kind = "bandwidth" -> <<"WithFault">>
      [] p.kind = "packetloss" ->
            <<"WithFault">>
            \o (IF is_ingress(p.direction) THEN <<"FaultApplied">> ELSE <<>>)
            \o (IF is_egress(p.direction) THEN <<"FaultApplied">> ELSE <<>>)
      [] OTHER -> <<>>

\* ProxyPlugin::inject_tunnel_faults of each built-in plugin: the latency
\* plugin injects the client stream on ingress and the server stream on
\* egress, the others inject both streams.  Every built-in returns Ok.
InjectTunnelFaultsEvents(p) ==
    IF p.kind = "latency"
    THEN (IF is_ingress(p.direction) THEN InjectorInjectEvents(p) ELSE <<>>)
         \o (IF is_egress(p.direction) THEN InjectorInjectEvents(p) ELSE <<>>)
    ELSE InjectorInjectEvents(p) \o InjectorInjectEvents(p)

\* Whether the stream wrappers of a plugin send FaultApplied from a poll.
EmitsOnPoll(p) == p.kind \in {"latency", "bandwidth", "packetloss"}

\* A loop that walks the plugin list from its end.
InvocationsReversed(op, list) ==
    [i \in 1..Len(list) |->
        [op |-> op, plugin |-> list[Len(list) + 1 - i],
         input |-> [j \in 1..(i - 1) |-> list[Len(list) + 1 - j]]]]

\* `for plugin in plugins_lock.iter() { x = plugin.op(x).await }`: the calls
\* of one phase, in list order; the value handed to a plugin is the output of
\* the one before it, written here as the plugins that have transformed it.
Invocations(op, list) ==
    [i \in 1..Len(list) |->
        [op |-> op, plugin |-> list[i], input |-> SubSeq(list, 1, i - 1)]]

(***************************************************************************)
(* The proxy's request handler (proxy/mod.rs, run_proxy's service_fn).     *)
(***************************************************************************)
\* `passthrough = true`, unless hosts.contains(&upstream_host).
Passthrough(host, hosts) == ~(host \in hosts)

\* The guards left out: every request is run through the plugins.
FaultedAlways(t) == TRUE

\* The `if !passthrough` guards of Forward::execute and handle_connect.
Faulted(t) == ~t.passthrough

\* The handlers that hold the read guard `hosts` on the allow-list: it lives
\* until the service future returns, that is across forward::handle_request
\* and until handle_connect has spawned the tunnel.
HoldsHostsLock(t) ==
    \/ t.mode = "forward" /\ t.pc \in {"prepare", "request", "execute", "response"}
    \/ t.mode = "connect" /\ t.pc = "connect_plugins"

NewTask(mode, origin, host) ==
    [id |-> counter, mode |-> mode, origin |-> origin,
     passthrough |-> Passthrough(host, upstream_hosts),
     handle |-> NewHandle(Passthrough(host, upstream_hosts)),
     pc |-> IF mode = "forward" THEN "prepare" ELSE "connect_plugins",
     used |-> <<>>, invoked |-> <<>>, wrapped |-> FALSE, applied |-> 0,
     polled |-> <<>>, reply |-> "none"]

\* A client other than the scenario runner connects and sends a request.  A
\* writer queued on the allow-list lock keeps new readers out (tokio's RwLock
\* is write-preferring).
AcceptClient(mode, host) ==
    /\ Len(tasks) < MaxTasks
    /\ runner.pc # "hosts_wait"
    /\ tasks' = Append(tasks, NewTask(mode, "client", host))
    /\ counter' = counter + 1
    /\ UNCHANGED <<plugins, shared_config, upstream_hosts, config_tx, watcher,
                   runner, bus>>
    /\ UNCHANGED nonDataVars

(***************************************************************************)
(* Forward::execute (proxy/forward.rs).                                    *)
(***************************************************************************)
\* What the client gets once forward::handle_request has returned: the
\* service future does `let resp = r.unwrap()`, so an Err panics the
\* connection's task and the connection is dropped without a response.
HandlerReply(result) == IF result = "ok" THEN "response" ELSE "dropped"

\* One plugin phase: under `!passthrough`, take the read lock on the shared
\* list and call op on every plugin, in order.  The k-th plugin fails, or
\* none does (k = 0): the error leaves Forward::execute at once (`?` in
\* prepare_client and process_response, unwrap() in process_request).
PluginPhase(t, op, next, k) ==
    IF Faulted(t)
    THEN IF k = 0
         THEN [t EXCEPT !.used = Append(@, plugins),
                        !.invoked = @ \o Invocations(op, plugins),
                        !.pc = next]
         ELSE [t EXCEPT !.used = Append(@, plugins),
                        !.invoked = @ \o Invocations(op, SubSeq(plugins, 1, k)),
                        !.pc = "plugin_failed",
                        !.reply = HandlerReply("err")]
    ELSE [t EXCEPT !.pc = next]

\* The plugins that can fail in a phase: any of the list, for a faulted task.
FailingPlugins(t) == IF Faulted(t) THEN 0..Len(plugins) ELSE {0}

FwdPrepareClient(i) ==
    /\ tasks[i].mode = "forward" /\ tasks[i].pc = "prepare"
    /\ \E k \in FailingPlugins(tasks[i]) :
         tasks' = [tasks EXCEPT ![i] = PluginPhase(@, "prepare_client", "request", k)]
    /\ UNCHANGED <<plugins, shared_config, upstream_hosts, config_tx, watcher,
                   runner, counter, bus>>
    /\ UNCHANGED nonDataVars

FwdProcessRequest(i) ==
    /\ tasks[i].mode = "forward" /\ tasks[i].pc = "request"
    /\ \E k \in FailingPlugins(tasks[i]) :
         tasks' = [tasks EXCEPT ![i] = PluginPhase(@, "process_request", "execute", k)]
    /\ UNCHANGED <<plugins, shared_config, upstream_hosts, config_tx, watcher,
                   runner, counter, bus>>
    /\ UNCHANGED nonDataVars

\* client.execute(upstream_req): a response, or an error that is returned.
FwdExecute(i) ==
    /\ tasks[i].mode = "forward" /\ tasks[i].pc = "execute"
    /\ \E ok \in BOOLEAN :
         tasks' = [tasks EXCEPT ![i] =
                      IF ok
                      THEN [@ EXCEPT !.pc = "response"]
                      ELSE [@ EXCEPT !.pc = "failed",
                                     !.reply = HandlerReply("err")]]
    /\ UNCHANGED <<plugins, shared_config, upstream_hosts, config_tx, watcher,
                   runner, counter, bus>>
    /\ UNCHANGED nonDataVars

FwdProcessResponse(i) ==
    /\ tasks[i].mode = "forward" /\ tasks[i].pc = "response"
    /\ \E k \in FailingPlugins(tasks[i]) :
         tasks' = [tasks EXCEPT ![i] =
                      LET t == PluginPhase(@, "process_response", "done", k)
                      IN  IF t.pc = "done"
                          THEN [t EXCEPT !.reply = HandlerReply("ok")]
                          ELSE t]
    /\ UNCHANGED <<plugins, shared_config, upstream_hosts, config_tx, watcher,
                   runner, counter, bus>>
    /\ UNCHANGED nonDataVars

(***************************************************************************)
(* handle_connect (proxy/tunnel.rs).                                       *)
(***************************************************************************)
\* process_connect_plugins under `!passthrough`, then the tunnel is spawned
\* and the handler returns.
TunProcessConnect(i) ==
    /\ tasks[i].mode = "connect" /\ tasks[i].pc = "connect_plugins"
    /\ tasks' = [tasks EXCEPT ![i] =
                    IF Faulted(@)
                    THEN [@ EXCEPT !.invoked = @ \o Invocations("process_connect_request", plugins),
                                   !.pc = "resolving"]
                    ELSE [@ EXCEPT !.pc = "resolving"]]
    /\ UNCHANGED <<plugins, shared_config, upstream_hosts, config_tx, watcher,
                   runner, counter, bus>>
    /\ UNCHANGED nonDataVars

\* The events of a successful resolution: event.on_resolved.
ResolvedEvents == <<"IpResolved">>

\* resolve_addresses: lookup_ip(host).await.unwrap() panics the spawned task
\* when the lookup fails; otherwise on_resolved is called.
TunResolve(i) ==
    /\ tasks[i].mode = "connect" /\ tasks[i].pc = "resolving"
    /\ \E ok \in BOOLEAN :
         IF ok
         THEN /\ tasks' = [tasks EXCEPT ![i].pc = "upgrading"]
              /\ bus' = Emit(bus, tasks[i].handle, tasks[i].id, ResolvedEvents)
         ELSE /\ tasks' = [tasks EXCEPT ![i].pc = "panicked"]
              /\ bus' = bus
    /\ UNCHANGED <<plugins, shared_config, upstream_hosts, config_tx, watcher,
                   runner, counter>>
    /\ UNCHANGED nonDataVars

\* hyper::upgrade::on(req): on Err the error is logged and the task ends.
TunUpgrade(i) ==
    /\ tasks[i].mode = "connect" /\ tasks[i].pc = "upgrading"
    /\ \E ok \in BOOLEAN :
         tasks' = [tasks EXCEPT ![i].pc = IF ok THEN "connecting" ELSE "upgrade_failed"]
    /\ UNCHANGED <<plugins, shared_config, upstream_hosts, config_tx, watcher,
                   runner, counter, bus>>
    /\ UNCHANGED nonDataVars

\* The events once the TCP stream to the target is open: event.on_started.
ConnectedEvents == <<"Started">>

\* TcpStream::connect(addr): on Ok on_started is called; on Err the plugins
\* are notified (notify_plugins_connect_response) under `!passthrough`.
TunConnect(i) ==
    /\ tasks[i].mode = "connect" /\ tasks[i].pc = "connecting"
    /\ \E ok \in BOOLEAN :
         IF ok
         THEN /\ tasks' = [tasks EXCEPT ![i].pc = "injecting"]
              /\ bus' = Emit(bus, tasks[i].handle, tasks[i].id, ConnectedEvents)
         ELSE /\ tasks' = [tasks EXCEPT ![i] =
                    IF Faulted(@)
                    THEN [@ EXCEPT !.invoked = @ \o Invocations("process_connect_response", plugins),
                                   !.pc = "connect_failed"]
                    ELSE [@ EXCEPT !.pc = "connect_failed"]]
              /\ bus' = bus
    /\ UNCHANGED <<plugins, shared_config, upstream_hosts, config_tx, watcher,
                   runner, counter>>
    /\ UNCHANGED nonDataVars

\* Under `!passthrough`, fold both streams through inject_tunnel_faults of
\* every plugin of the shared list, in order.
TunInject(i) ==
    /\ tasks[i].mode = "connect" /\ tasks[i].pc = "injecting"
    /\ IF Faulted(tasks[i])
       THEN /\ tasks' = [tasks EXCEPT ![i] =
                    [@ EXCEPT !.used = Append(@, plugins),
                              !.invoked = @ \o Invocations("inject_tunnel_faults", plugins),
                              !.wrapped = plugins # <<>>,
                              !.pc = "streaming"]]
            /\ bus' = Emit(bus, tasks[i].handle, tasks[i].id,
                           Flatten([k \in 1..Len(plugins) |->
                                        InjectTunnelFaultsEvents(plugins[k])]))
       ELSE /\ tasks' = [tasks EXCEPT ![i].pc = "streaming"]
            /\ bus' = bus
    /\ UNCHANGED <<plugins, shared_config, upstream_hosts, config_tx, watcher,
                   runner, counter>>
    /\ UNCHANGED nonDataVars

\* Wrappers that look their settings up in the shared plugin list.
WrapperSettingsShared(t, shared) == shared

\* The settings a tunnel's wrappers work with: each wrapper owns a clone of
\* the injector of the plugin that created it (LatencyStreamRead::new takes
\* the injector by value), so they are those of the list read when the
\* streams were injected.
WrapperSettings(t, shared) == t.used[1]

\* copy_bidirectional polls a wrapped stream, whose wrapper calls on_applied.
TunPoll(i) ==
    /\ tasks[i].mode = "connect" /\ tasks[i].pc = "streaming"
    /\ tasks[i].wrapped
    /\ tasks[i].applied < MaxApplied
    /\ \E k \in 1..Len(tasks[i].used[1]) : EmitsOnPoll(tasks[i].used[1][k])
    /\ tasks' = [tasks EXCEPT ![i].applied = @ + 1,
                              ![i].polled =
                                  Append(@, [settings |-> WrapperSettings(tasks[i], plugins),
                                             shared |-> plugins])]
    /\ bus' = Emit(bus, tasks[i].handle, tasks[i].id, <<"FaultApplied">>)
    /\ UNCHANGED <<plugins, shared_config, upstream_hosts, config_tx, watcher,
                   runner, counter>>
    /\ UNCHANGED nonDataVars

\* The events of the Ok arm of copy_bidirectional: on_response(0),
\* on_completed(elapsed, bytes_from_client, bytes_to_server).
CopyOkEvents == <<"ResponseReceived", "Completed">>

\* An Err arm that reports the error and then falls into the completion.
CopyErrEventsErrorThenCompleted == <<"ResponseReceived", "Error", "Completed">>

\* The events of the Err arm: on_response(500), on_completed(elapsed, 0, 0).
CopyErrEvents == <<"ResponseReceived", "Completed">>

TunCopyDone(i) ==
    /\ tasks[i].mode = "connect" /\ tasks[i].pc = "streaming"
    /\ \E ok \in BOOLEAN :
         /\ tasks' = [tasks EXCEPT ![i].pc = IF ok THEN "copied" ELSE "copy_failed"]
         /\ bus' = Emit(bus, tasks[i].handle, tasks[i].id,
                        IF ok THEN CopyOkEvents ELSE CopyErrEvents)
    /\ UNCHANGED <<plugins, shared_config, upstream_hosts, config_tx, watcher,
                   runner, counter>>
    /\ UNCHANGED nonDataVars

(***************************************************************************)
(* The configuration watcher (proxy/mod.rs:163-176).                       *)
(***************************************************************************)
\* config_rx.changed().await.is_ok(), then config_rx.borrow().clone().
WatcherChanged ==
    /\ watcher.pc = "wait"
    /\ watcher.seen # config_tx.version
    /\ watcher' = [pc |-> "update_config", seen |-> config_tx.version,
                   new_config |-> config_tx.value]
    /\ UNCHANGED <<plugins, shared_config, upstream_hosts, config_tx, runner,
                   tasks, counter, bus>>
    /\ UNCHANGED nonDataVars

\* state.update_config(new_config).await
WatcherUpdateConfig ==
    /\ watcher.pc = "update_config"
    /\ shared_config' = watcher.new_config
    /\ watcher' = [watcher EXCEPT !.pc = "update_plugins"]
    /\ UNCHANGED <<plugins, upstream_hosts, config_tx, runner, tasks, counter,
                   bus>>
    /\ UNCHANGED nonDataVars

\* load_builtin_plugins(state.shared_config.clone()), then
\* state.update_plugins(new_plugins).await
WatcherUpdatePlugins ==
    /\ watcher.pc = "update_plugins"
    /\ plugins' = UpdatePlugins(plugins, LoadBuiltinPlugins(shared_config))
    /\ watcher' = [watcher EXCEPT !.pc = "wait"]
    /\ UNCHANGED <<shared_config, upstream_hosts, config_tx, runner, tasks,
                   counter, bus>>
    /\ UNCHANGED nonDataVars

(***************************************************************************)
(* The scenario runner (scenario.rs, execute_item).                        *)
(***************************************************************************)
\* The next item of the scenario; its allow-list update queues for the write
\* lock.
RunnerBeginItem(upstreams, fault) ==
    /\ runner.pc = "idle"
    /\ runner.n < MaxItems
    /\ runner' = [pc |-> "hosts_wait", n |-> runner.n + 1,
                  upstreams |-> upstreams, fault |-> fault]
    /\ UNCHANGED <<plugins, shared_config, upstream_hosts, config_tx, watcher,
                   tasks, counter, bus>>
    /\ UNCHANGED nonDataVars

\* app_state.proxy_state.update_upstream_hosts(upstreams).await
RunnerUpdateUpstreamHosts ==
    /\ runner.pc = "hosts_wait"
    /\ \A i \in 1..Len(tasks) : ~HoldsHostsLock(tasks[i])
    /\ upstream_hosts' = runner.upstreams
    /\ runner' = [runner EXCEPT !.pc = "send"]
    /\ UNCHANGED <<plugins, shared_config, config_tx, watcher, tasks, counter,
                   bus>>
    /\ UNCHANGED nonDataVars

\* app_state.config_tx.send(new_config)
RunnerSendConfig ==
    /\ runner.pc = "send"
    /\ config_tx' = [value |-> runner.fault, version |-> config_tx.version + 1]
    /\ runner' = [runner EXCEPT !.pc = "request"]
    /\ UNCHANGED <<plugins, shared_config, upstream_hosts, watcher, tasks,
                   counter, bus>>
    /\ UNCHANGED nonDataVars

\* execute_request: the call goes through the proxy, which accepts it.
RunnerIssueRequest ==
    /\ runner.pc = "request"
    /\ Len(tasks) < MaxTasks
    /\ tasks' = Append(tasks, NewTask("forward", "runner", ItemTarget))
    /\ counter' = counter + 1
    /\ runner' = [runner EXCEPT !.pc = "await"]
    /\ UNCHANGED <<plugins, shared_config, upstream_hosts, config_tx, watcher,
                   bus>>
    /\ UNCHANGED nonDataVars

\* The response (or the error) of the call has come back.
RunnerFinishItem ==
    /\ runner.pc = "await"
    /\ \A i \in 1..Len(tasks) :
         tasks[i].origin = "runner"
            => tasks[i].pc \in {"done", "failed", "plugin_failed"}
    /\ runner' = [runner EXCEPT !.pc = "idle"]
    /\ UNCHANGED <<plugins, shared_config, upstream_hosts, config_tx, watcher,
                   tasks, counter, bus>>
    /\ UNCHANGED nonDataVars

(***************************************************************************)
(* The dataplane specification.                                            *)
(***************************************************************************)
\* No bandwidth wrapper exists.
BwIdle ==
    [kind |-> "none", max_size |-> 0, tokens |-> 0, delay |-> "none",
     timer |-> "none", woken |-> FALSE, inner_waker |-> FALSE,
     last |-> "none", left |-> 0, hist |-> <<>>, requested |-> 0,
     reserved |-> 0, moved |-> 0, events |-> 0, bps_sum |-> 0,
     moved_polls |-> 0, last_events |-> <<>>]

\* The dataplane at rest: ProxyState::new, the watch channel of main.rs and
\* no connection accepted.
DataIdle ==
    /\ plugins = <<>>
    /\ shared_config = DefaultConfig
    /\ upstream_hosts = {}
    /\ config_tx = [value |-> DefaultConfig, version |-> 0]
    /\ watcher = [pc |-> "wait", seen |-> 0, new_config |-> DefaultConfig]
    /\ runner = [pc |-> "idle", n |-> 0, upstreams |-> {}, fault |-> DefaultConfig]
    /\ tasks = <<>>

\* No latency wrapper exists.
LatIdle ==
    [kind |-> "none", global |-> FALSE, applied_count |-> 0, armed |-> FALSE,
     remaining |-> 0, polls |-> 0, inner_polls |-> 0, last |-> "none",
     early |-> FALSE, events |-> <<>>, unarmed |-> 0]

\* No tunnel is being copied.
FlowIdle == [phase |-> "none"]

\* No listener is bound.
ListenerIdle == [pc |-> "none"]

\* No scenario is loaded.
ScnIdle == [pc |-> "none"]

\* No forward request is being converted.
HttpIdle == [pc |-> "none"]

\* No client carries the DNS fault.
DnsIdle == [pc |-> "none"]

\* No subscriber is attached to the bus.
SubIdle == [pc |-> "none"]

\* No report is being saved.
RepIdle == [pc |-> "none"]

\* No upstream is being looked up.
SelIdle == [pc |-> "none"]

\* No stream is wrapped for jitter.
JitIdle == [pc |-> "none"]

\* No stream is wrapped for packet loss.
PlIdle == [pc |-> "none"]

\* No join task is running.
JoinIdle == [pc |-> "none"]

\* No request is being timed.
TimIdle == [pc |-> "none"]

\* No forward request meets the bandwidth plugin.
BwpIdle == [pc |-> "none"]

\* No response is being transformed.
XfIdle == [pc |-> "none"]

\* No wrapper is being polled.
WrIdle == [pc |-> "none"]

\* No configuration is being built.
CfgIdle == [pc |-> "none"]

\* No limiter is being built.
LimIdle == [pc |-> "none"]

\* No tunnel meets the DNS plugin.
TdIdle == [pc |-> "none"]

\* The components modelled on their own, absent, but for the one named.
AuxIdleExcept(name) ==
    /\ IF name = "lat" THEN TRUE ELSE lat = LatIdle
    /\ IF name = "flow" THEN TRUE ELSE flow = FlowIdle
    /\ IF name = "listener" THEN TRUE ELSE listener = ListenerIdle
    /\ IF name = "scn" THEN TRUE ELSE scn = ScnIdle
    /\ IF name = "http" THEN TRUE ELSE http = HttpIdle
    /\ IF name = "dns" THEN TRUE ELSE dns = DnsIdle
    /\ IF name = "sub" THEN TRUE ELSE sub = SubIdle
    /\ IF name = "rep" THEN TRUE ELSE rep = RepIdle
    /\ IF name = "sel" THEN TRUE ELSE sel = SelIdle
    /\ IF name = "jit" THEN TRUE ELSE jit = JitIdle
    /\ IF name = "pl" THEN TRUE ELSE pl = PlIdle
    /\ IF name = "join" THEN TRUE ELSE join = JoinIdle
    /\ IF name = "tim" THEN TRUE ELSE tim = TimIdle
    /\ IF name = "bwp" THEN TRUE ELSE bwp = BwpIdle
    /\ IF name = "xf" THEN TRUE ELSE xf = XfIdle
    /\ IF name = "wr" THEN TRUE ELSE wr = WrIdle
    /\ IF name = "cfg" THEN TRUE ELSE cfg = CfgIdle
    /\ IF name = "lim" THEN TRUE ELSE lim = LimIdle
    /\ IF name = "td" THEN TRUE ELSE td = TdIdle

AuxIdle == AuxIdleExcept("none")

\* Everything but the component named, at rest.
RestIdleExcept(name) ==
    /\ DataIdle
    /\ counter = 1
    /\ bus = <<>>
    /\ handles = <<>>
    /\ bw = BwIdle
    /\ AuxIdleExcept(name)

Init ==
    /\ handles = <<>>
    /\ bw = BwIdle
    /\ AuxIdle
    /\ plugins = <<>>
    /\ shared_config = DefaultConfig
    /\ upstream_hosts \in InitialUpstreams
    /\ config_tx = [value |-> DefaultConfig, version |-> 0]
    /\ watcher = [pc |-> "wait", seen |-> 0, new_config |-> DefaultConfig]
    /\ runner = [pc |-> "idle", n |-> 0, upstreams |-> {}, fault |-> DefaultConfig]
    /\ tasks = <<>>
    /\ counter = 1
    /\ bus = <<>>

Next ==
    \/ \E mode \in {"forward", "connect"}, host \in Hosts : AcceptClient(mode, host)
    \/ \E i \in 1..Len(tasks) : FwdPrepareClient(i)
    \/ \E i \in 1..Len(tasks) : FwdProcessRequest(i)
    \/ \E i \in 1..Len(tasks) : FwdExecute(i)
    \/ \E i \in 1..Len(tasks) : FwdProcessResponse(i)
    \/ \E i \in 1..Len(tasks) : TunProcessConnect(i)
    \/ \E i \in 1..Len(tasks) : TunResolve(i)
    \/ \E i \in 1..Len(tasks) : TunUpgrade(i)
    \/ \E i \in 1..Len(tasks) : TunConnect(i)
    \/ \E i \in 1..Len(tasks) : TunInject(i)
    \/ \E i \in 1..Len(tasks) : TunPoll(i)
    \/ \E i \in 1..Len(tasks) : TunCopyDone(i)
    \/ WatcherChanged
    \/ WatcherUpdateConfig
    \/ WatcherUpdatePlugins
    \/ \E u \in ItemUpstreams, f \in ItemConfigs : RunnerBeginItem(u, f)
    \/ RunnerUpdateUpstreamHosts
    \/ RunnerSendConfig
    \/ RunnerIssueRequest
    \/ RunnerFinishItem

Spec == Init /\ [][Next]_vars

(***************************************************************************)
(* SpecEvent: event handles used directly (event.rs, TaskManager and the   *)
(* two implementations of ProxyTaskEvent).                                 *)
(***************************************************************************)
Methods == {"on_started", "with_fault", "on_resolved", "on_applied",
            "on_first_byte", "on_response", "on_completed", "on_error"}

\* The TaskProgressEvent variant each FaultTaskEvent method builds.
EventOfMethod(m) ==
    CASE m = "on_started" -> "Started"
      [] m = "with_fault" -> "WithFault"
      [] m = "on_resolved" -> "IpResolved"
      [] m = "on_applied" -> "FaultApplied"
      [] m = "on_first_byte" -> "TTFB"
      [] m = "on_response" -> "ResponseReceived"
      [] m = "on_completed" -> "Completed"
      [] m = "on_error" -> "Error"

\* A counter that next_id reads and leaves as it is.
FetchAddKeeps(c) == c

\* TaskManager::next_id: counter.fetch_add(1, SeqCst), one atomic step that
\* returns the previous value and stores the value computed here.
FetchAdd(c) == c + 1

\* TaskManager::new_fault_event; next_id is counter.fetch_add(1), which
\* returns the previous value.
new_fault_event ==
    /\ Len(handles) < MaxHandles
    /\ handles' = Append(handles, [id |-> counter, kind |-> "fault", calls |-> <<>>])
    /\ counter' = FetchAdd(counter)
    /\ UNCHANGED <<dataVars, bus, bw, auxVars>>

\* TaskManager::new_passthrough_event.
new_passthrough_event ==
    /\ Len(handles) < MaxHandles
    /\ handles' = Append(handles, [id |-> counter, kind |-> "passthrough", calls |-> <<>>])
    /\ counter' = FetchAdd(counter)
    /\ UNCHANGED <<dataVars, bus, bw, auxVars>>

\* One call of method m on handle h.
HandleCall(h, m) ==
    /\ Sum([i \in 1..Len(handles) |-> Len(handles[i].calls)]) < MaxCalls
    /\ bus' = Emit(bus, handles[h].kind, handles[h].id, <<EventOfMethod(m)>>)
    /\ handles' = [handles EXCEPT ![h].calls = Append(@, m)]
    /\ UNCHANGED <<dataVars, counter, bw, auxVars>>

InitEvent ==
    /\ DataIdle
    /\ counter = 1
    /\ bus = <<>>
    /\ handles = <<>>
    /\ bw = BwIdle
    /\ AuxIdle

NextEvent ==
    \/ new_fault_event
    \/ new_passthrough_event
    \/ \E h \in 1..Len(handles), m \in Methods : HandleCall(h, m)

SpecEvent == InitEvent /\ [][NextEvent]_vars

(***************************************************************************)
(* SpecBandwidth: one bandwidth-limited direction (fault/bandwidth.rs).    *)
(*                                                                         *)
(* The limiter is governor's direct rate limiter with Quota::per_second of *)
(* the rate: a bucket of `rate` cells that starts full and regains one     *)
(* cell every 1/rate second.  Time advances in ticks of that length.       *)
(* check_n(n) takes n cells when n are there and fails otherwise;          *)
(* until_ready() takes one cell, sleeping until there is one.              *)
(***************************************************************************)
Rates == {2, 3}

\* BandwidthLimitedRead::new / BandwidthLimitedWrite::new for a rate that
\* fits the quota: the limiter and max_read_size / max_write_size.
BwNew(kind, rate) ==
    [kind |-> kind, max_size |-> rate, tokens |-> rate, delay |-> "none",
     timer |-> "none", woken |-> TRUE, inner_waker |-> FALSE,
     last |-> "none", left |-> MaxBytes, hist |-> [i \in 1..rate |-> 0],
     requested |-> 0, reserved |-> 0, moved |-> 0, events |-> 0, bps_sum |-> 0,
     moved_polls |-> 0, last_events |-> <<>>]

\* limiter.check_n(permit_nz) is Ok.
CheckN(tokens, n) == tokens >= n

\* The size of the buffer handed to the inner stream: poll_read hands a
\* ReadBuf over the first to_read bytes, poll_write hands buf itself.
ReadInnerLen(requested, to_read) == to_read

WriteInnerLen(requested, to_write) == requested

\* What a poll of the inner stream can return for a buffer of n bytes.
InnerOutcomes(n) ==
    {[r |-> "ready", n |-> k] : k \in 1..n}
    \cup {[r |-> "pending", n |-> 0], [r |-> "err", n |-> 0]}

\* A wrapper that reports the cells it reserved.
OnAppliedBpsReserved(moved, reserved) == reserved

\* The bps of the event of a poll that moved data:
\* FaultEvent::Bandwidth { bps: Some(written) } / { bps: Some(filled) }.
OnAppliedBps(moved, reserved) == moved

\* The Ok(_) arm: the cells are taken and the inner stream is polled; on
\* Ready(Ok(_)) on_applied is called.
Granted(b, requested, reserved, outcome) ==
    LET c == [b EXCEPT !.tokens = @ - reserved, !.requested = requested,
                       !.reserved = reserved, !.moved = 0,
                       !.last_events = <<>>]
    IN  CASE outcome.r = "pending" ->
                [c EXCEPT !.last = "pending", !.woken = FALSE, !.inner_waker = TRUE]
          [] outcome.r = "err" ->
                [c EXCEPT !.last = "err", !.woken = FALSE]
          [] OTHER ->
                [c EXCEPT !.last = "ready", !.moved = outcome.n,
                          !.events = @ + 1,
                          !.bps_sum = @ + OnAppliedBps(outcome.n, reserved),
                          !.moved_polls = @ + 1,
                          !.last_events = <<OnAppliedBps(outcome.n, reserved)>>,
                          !.left = @ - outcome.n,
                          !.woken = (b.left - outcome.n > 0),
                          !.hist = [@ EXCEPT ![Len(@)] = @ + outcome.n]]

\* The Err(_) arm: create the until_ready future if there is none, poll it,
\* and return Pending whatever it returns.  The future, polled while its
\* timer runs, stays pending; otherwise it takes a cell and completes, or
\* arms a timer with the task's waker when there is no cell.
Throttled(b, requested, reserved) ==
    LET c == [b EXCEPT !.requested = requested, !.reserved = 0, !.moved = 0,
                       !.last = "pending", !.woken = FALSE,
                       !.last_events = <<>>]
    IN  IF b.timer = "armed"
        THEN [c EXCEPT !.delay = "some"]
        ELSE IF b.tokens >= 1
             THEN [c EXCEPT !.tokens = @ - 1, !.delay = "none"]
             ELSE [c EXCEPT !.delay = "some", !.timer = "armed"]

\* BandwidthLimitedWrite::poll_write with a buffer of `requested` bytes.
poll_write(requested) ==
    /\ bw.kind = "write" /\ bw.woken /\ bw.left > 0
    /\ requested <= bw.left
    /\ LET to_write == Min(bw.max_size, requested)
       IN  IF CheckN(bw.tokens, to_write)
           THEN \E outcome \in InnerOutcomes(WriteInnerLen(requested, to_write)) :
                    bw' = Granted(bw, requested, to_write, outcome)
           ELSE bw' = Throttled(bw, requested, to_write)
    /\ UNCHANGED <<dataVars, eventVars, handles, auxVars>>

\* BandwidthLimitedRead::poll_read with `requested` bytes of buffer left.
poll_read(requested) ==
    /\ bw.kind = "read" /\ bw.woken /\ bw.left > 0
    /\ requested <= bw.left
    /\ LET to_read == Min(bw.max_size, requested)
       IN  IF CheckN(bw.tokens, to_read)
           THEN \E outcome \in InnerOutcomes(ReadInnerLen(requested, to_read)) :
                    bw' = Granted(bw, requested, to_read, outcome)
           ELSE bw' = Throttled(bw, requested, to_read)
    /\ UNCHANGED <<dataVars, eventVars, handles, auxVars>>

\* 1/rate second passes: the bucket regains a cell, the one-second window
\* slides, and an armed timer fires and wakes the task.
BwTick ==
    /\ bw.kind # "none"
    /\ bw' = [bw EXCEPT !.tokens = Min(bw.max_size, @ + 1),
                        !.hist = Tail(@) \o <<0>>,
                        !.timer = "none",
                        !.woken = @ \/ bw.timer = "armed"]
    /\ UNCHANGED <<dataVars, eventVars, handles, auxVars>>

\* The inner stream becomes ready and wakes the task that it left pending.
BwInnerReady ==
    /\ bw.inner_waker
    /\ bw' = [bw EXCEPT !.inner_waker = FALSE, !.woken = TRUE]
    /\ UNCHANGED <<dataVars, eventVars, handles, auxVars>>

InitBandwidth ==
    /\ DataIdle
    /\ counter = 1
    /\ bus = <<>>
    /\ handles = <<>>
    /\ AuxIdle
    /\ bw \in {BwNew(kind, rate) : kind \in {"read", "write"}, rate \in Rates}

NextBandwidth ==
    \/ \E requested \in 1..MaxRequest : poll_write(requested)
    \/ \E requested \in 1..MaxRequest : poll_read(requested)
    \/ BwTick
    \/ BwInnerReady

SpecBandwidth == InitBandwidth /\ [][NextBandwidth]_vars

(***************************************************************************)
(* SpecLatency: one latency wrapper, LatencyStreamRead or                  *)
(* LatencyStreamWrite (fault/latency.rs).  Time advances in ticks; a       *)
(* sampled delay is a number of ticks, and a Sleep is ready once its       *)
(* remaining time is zero.                                                 *)
(***************************************************************************)
\* The delays get_delay can sample.
Delays == 0..MaxDelay

\* LatencyStreamRead::new / LatencyStreamWrite::new: no sleep, applied_count 0.
LatNew(kind, global) ==
    [kind |-> kind, global |-> global, applied_count |-> 0, armed |-> FALSE,
     remaining |-> 0, polls |-> 0, inner_polls |-> 0, last |-> "none",
     early |-> FALSE, events |-> <<>>, unarmed |-> 0]

\* The poll is handed to the underlying stream; `early` records that this
\* happened while a sleep was armed and had time left.
LatPollInner(l) ==
    [l EXCEPT !.inner_polls = @ + 1, !.last = "inner",
              !.early = @ \/ (l.armed /\ l.remaining > 0)]

\* A wrapper without the global mode.
GlobalShortcutNever(l) == FALSE

\* `if settings.global && *this.applied_count == 1`: in global mode, once a
\* delay was sampled, the poll goes to the stream.
GlobalShortcut(l) == l.global /\ l.applied_count = 1

\* The body of poll_read and of poll_write, which differ in the method of
\* the stream they call: the global-mode shortcut, then the sampling of a
\* delay when there is no sleep, then the poll of the sleep.
LatPoll(l, delay) ==
    IF GlobalShortcut(l)
    THEN LatPollInner(l)
    ELSE LET a == IF ~l.armed
                  THEN [l EXCEPT !.applied_count = @ + 1, !.armed = TRUE,
                                 !.remaining = delay,
                                 !.events = Append(@, delay)]
                  ELSE l
         IN  IF a.remaining = 0
             THEN LatPollInner([a EXCEPT !.armed = FALSE])
             ELSE [a EXCEPT !.last = "pending"]

\* LatencyStreamRead::poll_read, called by whoever polls the task.
LatencyStreamRead_poll_read ==
    /\ lat.kind = "read" /\ lat.polls < MaxPolls
    /\ \E delay \in Delays :
         lat' = [LatPoll(lat, delay) EXCEPT
                    !.polls = @ + 1,
                    !.unarmed = IF lat.armed THEN @ ELSE @ + 1]
    /\ UNCHANGED notLat

\* LatencyStreamWrite::poll_write.
LatencyStreamWrite_poll_write ==
    /\ lat.kind = "write" /\ lat.polls < MaxPolls
    /\ \E delay \in Delays :
         lat' = [LatPoll(lat, delay) EXCEPT
                    !.polls = @ + 1,
                    !.unarmed = IF lat.armed THEN @ ELSE @ + 1]
    /\ UNCHANGED notLat

\* One tick passes on the timer of an armed sleep.
LatTick ==
    /\ lat.armed /\ lat.remaining > 0
    /\ lat' = [lat EXCEPT !.remaining = @ - 1]
    /\ UNCHANGED notLat

InitLatency ==
    /\ RestIdleExcept("lat")
    /\ lat \in {LatNew(kind, global) : kind \in {"read", "write"}, global \in BOOLEAN}

NextLatency ==
    \/ LatencyStreamRead_poll_read
    \/ LatencyStreamWrite_poll_write
    \/ LatTick

SpecLatency == InitLatency /\ [][NextLatency]_vars

(***************************************************************************)
(* SpecFlow: the two streams of a tunnel, the halves an injector wraps and *)
(* the bytes copy_bidirectional moves through them (proxy/tunnel.rs,       *)
(* fault/bandwidth.rs, fault/latency.rs, plugin/builtin/bandwidth.rs).     *)
(***************************************************************************)
Sides == {"client", "server"}

\* copy_bidirectional(client_stream, server_stream) reads the client stream
\* and writes the server stream (bytes from the client toward the upstream),
\* and reads the server stream and writes the client stream (bytes from the
\* upstream toward the client).
FlowOf(side, half) ==
    IF (side = "client" /\ half = "read") \/ (side = "server" /\ half = "write")
    THEN "egress"
    ELSE "ingress"

\* The halves of a split stream an injector wraps: the read half if
\* direction.is_ingress(), the write half if direction.is_egress().
WrappedHalves(direction) ==
    (IF is_ingress(direction) THEN {"read"} ELSE {})
    \cup (IF is_egress(direction) THEN {"write"} ELSE {})

\* BandwidthLimitFaultInjector::inject on the stream of one side.
BandwidthInject(direction, side) ==
    {<<side, half>> : half \in WrappedHalves(direction)}

\* BandwidthPlugin::inject_tunnel_faults: inject on the client stream and on
\* the server stream, with the plugin's direction.
BandwidthInjectTunnelFaults(direction) ==
    BandwidthInject(direction, "client") \cup BandwidthInject(direction, "server")

\* LatencyInjector::inject on the stream of one side: the stream is returned
\* as it is unless side = settings.side.
LatencyInject(settings, side) ==
    IF side # settings.side
    THEN {}
    ELSE {<<side, half>> : half \in WrappedHalves(settings.direction)}

FlowNew(kind, direction, side) ==
    [phase |-> "new", kind |-> kind, direction |-> direction, side |-> side,
     wrapped |-> {}, c2s |-> 0, s2c |-> 0, up |-> 0, down |-> 0,
     perturbed |-> {}]

\* A byte goes through one half of one stream; a wrapped half perturbs it.
Through(f, side, half) ==
    IF <<side, half>> \in f.wrapped
    THEN [f EXCEPT !.perturbed = @ \cup {FlowOf(side, half)}]
    ELSE f

FlowInjectBandwidth ==
    /\ flow.phase = "new" /\ flow.kind = "bandwidth"
    /\ flow' = [flow EXCEPT !.phase = "copying",
                            !.wrapped = BandwidthInjectTunnelFaults(flow.direction)]
    /\ UNCHANGED notFlow

\* The latency injector is applied to the streams of the sides given.
FlowInjectLatency(streams) ==
    /\ flow.phase = "new" /\ flow.kind = "latency"
    /\ flow' = [flow EXCEPT !.phase = "copying",
                            !.wrapped = UNION {LatencyInject(flow, side) : side \in streams}]
    /\ UNCHANGED notFlow

FlowReadClient ==
    /\ flow.phase = "copying" /\ flow.c2s + flow.up < MaxFlow
    /\ flow' = [Through(flow, "client", "read") EXCEPT !.c2s = @ + 1]
    /\ UNCHANGED notFlow

FlowWriteServer ==
    /\ flow.phase = "copying" /\ flow.c2s > 0
    /\ flow' = [Through(flow, "server", "write") EXCEPT !.c2s = @ - 1, !.up = @ + 1]
    /\ UNCHANGED notFlow

FlowReadServer ==
    /\ flow.phase = "copying" /\ flow.s2c + flow.down < MaxFlow
    /\ flow' = [Through(flow, "server", "read") EXCEPT !.s2c = @ + 1]
    /\ UNCHANGED notFlow

FlowWriteClient ==
    /\ flow.phase = "copying" /\ flow.s2c > 0
    /\ flow' = [Through(flow, "client", "write") EXCEPT !.s2c = @ - 1, !.down = @ + 1]
    /\ UNCHANGED notFlow

InitFlow ==
    /\ RestIdleExcept("flow")
    /\ flow \in {FlowNew(kind, direction, side) :
                    kind \in {"bandwidth", "latency"}, direction \in Directions,
                    side \in Sides}

NextFlow ==
    \/ FlowInjectBandwidth
    \/ \E streams \in (SUBSET Sides) \ {{}} : FlowInjectLatency(streams)
    \/ FlowReadClient
    \/ FlowWriteServer
    \/ FlowReadServer
    \/ FlowWriteClient

SpecFlow == InitFlow /\ [][NextFlow]_vars

(***************************************************************************)
(* SpecListener: the accept loop of run_proxy (proxy/mod.rs:187-220) and   *)
(* the shutdown channel of main.rs.  Each iteration is one tokio::select!  *)
(* over listener.accept() and shutdown_rx.recv(); select! without          *)
(* `biased;` starts from a branch picked at random, so either branch that  *)
(* is ready can be the one that completes.                                 *)
(***************************************************************************)
\* The listener is bound and the loop is at its select!; the broadcast
\* channel of capacity 1 holds nothing.
ListenerNew ==
    [pc |-> "select", signal |-> FALSE, arrived |-> 0, backlog |-> 0,
     handlers |-> 0, served |-> 0, accepted_after |-> 0]

\* A client connects: the connection waits in the listener's backlog.
ListenerClientConnects ==
    /\ listener.pc # "none"
    /\ listener.arrived < MaxConns
    /\ listener' = [listener EXCEPT !.arrived = @ + 1, !.backlog = @ + 1]
    /\ UNCHANGED notListener

\* main.rs: `let _ = shutdown_tx.send(())` after ctrl_c.
ListenerSendShutdown ==
    /\ listener.pc # "none"
    /\ ~listener.signal
    /\ listener' = [listener EXCEPT !.signal = TRUE]
    /\ UNCHANGED notListener

\* The accept branch completes with Ok((stream, addr)): the connection's
\* handler is spawned and the loop goes round.
ListenerAcceptBranch ==
    /\ listener.pc = "select"
    /\ listener.backlog > 0
    /\ listener' = [listener EXCEPT
                        !.backlog = @ - 1,
                        !.handlers = @ + 1,
                        !.accepted_after = IF listener.signal THEN @ + 1 ELSE @]
    /\ UNCHANGED notListener

\* The recv branch completes: `break`.
ListenerShutdownBranch ==
    /\ listener.pc = "select"
    /\ listener.signal
    /\ listener' = [listener EXCEPT !.pc = "stopped"]
    /\ UNCHANGED notListener

\* A spawned serve_connection task runs to its end.
ListenerHandlerEnds ==
    /\ listener.handlers > 0
    /\ listener' = [listener EXCEPT !.handlers = @ - 1, !.served = @ + 1]
    /\ UNCHANGED notListener

InitListener ==
    /\ RestIdleExcept("listener")
    /\ listener = ListenerNew

NextListener ==
    \/ ListenerClientConnects
    \/ ListenerSendShutdown
    \/ ListenerAcceptBranch
    \/ ListenerShutdownBranch
    \/ ListenerHandlerEnds

\* The recv branch is ready from the signal on, and a ready branch of a
\* select! that is polled again and again is eventually the one picked.
SpecListener ==
    InitListener /\ [][NextListener]_vars /\ WF_vars(ListenerShutdownBranch)

(***************************************************************************)
(* SpecScenario: one scenario item, expanded by build_item_list and run by *)
(* execute_item (scenario.rs), with FaultConfiguration::build (types.rs)   *)
(* and ProxyConfig::new (config.rs).                                       *)
(***************************************************************************)
\* Option<T>: None, Some(x).
None == [some |-> FALSE, v |-> 0]

Some(x) == [some |-> TRUE, v |-> x]

\* The entries of context.upstreams the items are drawn from.
UpstreamEntries == {"a:80", "a", "http://"}

\* upstream_to_addr: "scheme://" is put in front of an entry without "://";
\* Url::parse fails on an entry without a host (Err), and
\* port_or_known_default().unwrap() panics when the entry has no port and
\* its scheme has no default port.
UpstreamToAddr(host) ==
    CASE host = "a:80" -> [r |-> "ok", addr |-> "a:80"]
      [] host = "a" -> [r |-> "panic", addr |-> ""]
      [] host = "http://" -> [r |-> "err", addr |-> ""]

\* The faults of the items: a latency fault with its mean, a bandwidth fault
\* with its rate.
ItemFaults ==
    {[kind |-> "latency", mean |-> m, rate |-> 0] : m \in {None, Some(0), Some(1)}}
    \cup {[kind |-> "bandwidth", mean |-> None, rate |-> r] : r \in {0, 1}}

\* ScenarioItemCallStrategy: Repeat with a count and a step of 2.
ItemStrategies ==
    {[some |-> FALSE, count |-> 0, step |-> 0]}
    \cup {[some |-> TRUE, count |-> c, step |-> 2] : c \in 0..MaxCount}

\* ScenarioItemExpectation, or no expectation.
ItemExpectations ==
    {[some |-> FALSE, status |-> None, response_time_under |-> None]}
    \cup {[some |-> TRUE, status |-> st, response_time_under |-> u] :
             st \in {None, Some(200)}, u \in {None, Some(2)}}

\* What execute_request returns: an error, or the metrics of a response.
Responses ==
    {[r |-> "err", code |-> 0, total_time |-> 0]}
    \cup {[r |-> "ok", code |-> c, total_time |-> t] : c \in {200, 500}, t \in {1, 3}}

\* build_item_list: the source, then for i in 1..count a clone of the source
\* whose latency mean is mean.unwrap() + step * i; the other kinds of fault
\* reach todo!().
BuildItemList(source) ==
    LET strategy == source.strategy
        more == IF strategy.some /\ strategy.count > 1 THEN strategy.count - 1 ELSE 0
    IN  IF more = 0
        THEN [r |-> "ok", items |-> <<source>>]
        ELSE IF source.fault.kind # "latency" \/ ~source.fault.mean.some
             THEN [r |-> "panic", items |-> <<>>]
             ELSE [r |-> "ok",
                   items |-> <<source>> \o
                       [i \in 1..more |->
                           [source EXCEPT !.fault.mean =
                               Some(source.fault.mean.v + strategy.step * i)]]]

\* FaultConfiguration::build: the settings, with mean.unwrap_or(100.0) and
\* the direction "egress" when none is given.
FaultBuild(fault) ==
    [kind |-> fault.kind,
     latency_mean |-> IF fault.mean.some THEN fault.mean.v ELSE 100,
     bandwidth_rate |-> fault.rate,
     direction |-> "egress"]

\* ProxyConfig::new: the validation of the fault's settings.
ProxyConfigNew(fault_config) ==
    CASE fault_config.kind = "latency" /\ fault_config.latency_mean <= 0 -> "err"
      [] fault_config.kind = "bandwidth" /\ fault_config.bandwidth_rate = 0 -> "err"
      [] OTHER -> "ok"

\* The decision of execute_item for an expectation r and the metrics of a
\* response: `met` starts as None, becomes Some(v == code) when a status is
\* expected, then Some(total_time <= v) when it is Some(true) and a bound is
\* given; the decision is taken on met.unwrap().
Decide(r, metrics) ==
    LET met1 == IF r.status.some THEN Some(r.status.v = metrics.code) ELSE None
        met2 == IF met1 = Some(TRUE) /\ r.response_time_under.some
                THEN Some(metrics.total_time <= r.response_time_under.v)
                ELSE met1
    IN  IF ~met2.some THEN "panic"
        ELSE IF met2.v THEN "Success" ELSE "Failure"

\* execute_item up to the configuration it sends: how far it gets.
ItemStage(item) ==
    IF UpstreamToAddr(item.upstream).r # "ok" THEN "upstreams"
    ELSE IF ProxyConfigNew(FaultBuild(item.fault)) # "ok" THEN "config"
    ELSE "request"

\* What execute_item comes to for an item and the outcome of its request:
\* the report item it returns, or a panic (an unwrap() on an Err or a None).
ExecuteItemResult(item, resp) ==
    LET base == [item |-> item, resp |-> resp, requested |-> FALSE,
                 outcome |-> "panic", errors |-> <<>>, decision |-> "none"]
    IN  IF ItemStage(item) # "request" THEN base
        ELSE IF resp.r = "err"
        THEN [base EXCEPT !.requested = TRUE, !.outcome = "report",
                          !.errors = <<"request">>]
        ELSE IF ~item.expect.some
        THEN [base EXCEPT !.requested = TRUE, !.outcome = "report"]
        ELSE IF Decide(item.expect, resp) = "panic"
        THEN [base EXCEPT !.requested = TRUE]
        ELSE [base EXCEPT !.requested = TRUE, !.outcome = "report",
                          !.decision = Decide(item.expect, resp)]

ScnNew(source) ==
    [pc |-> "loaded", source |-> source, items |-> <<>>, runs |-> <<>>]

\* build_item_list(source)
ScnBuildItemList ==
    /\ scn.pc = "loaded"
    /\ scn' = [scn EXCEPT !.pc = IF BuildItemList(scn.source).r = "ok"
                                 THEN "built" ELSE "panicked",
                          !.items = BuildItemList(scn.source).items]
    /\ UNCHANGED notScn

\* execute_item(item, ...) on the k-th item of the list: the allow-list is
\* replaced, the configuration is sent, the request is executed and the
\* report item is made, unless an unwrap() panics on the way.
ScnExecuteItem(k, resp) ==
    /\ scn.pc = "built"
    /\ Len(scn.runs) < MaxRuns
    /\ k \in 1..Len(scn.items)
    /\ LET item == scn.items[k]
           run == ExecuteItemResult(item, resp)
       IN  /\ scn' = [scn EXCEPT !.runs = Append(@, run),
                                 !.pc = IF run.outcome = "panic"
                                        THEN "panicked" ELSE "built"]
           /\ upstream_hosts' = IF ItemStage(item) = "upstreams"
                                THEN upstream_hosts
                                ELSE {UpstreamToAddr(item.upstream).addr}
           /\ config_tx' = IF ItemStage(item) = "request"
                           THEN [value |-> Config(item.fault.kind,
                                                  FaultBuild(item.fault).direction),
                                 version |-> config_tx.version + 1]
                           ELSE config_tx
    /\ UNCHANGED <<plugins, shared_config, watcher, runner, tasks>>
    /\ UNCHANGED <<eventVars, handles, bw, lat, flow, listener, http, dns, sub, moreVars, lateVars>>

InitScenario ==
    /\ RestIdleExcept("scn")
    /\ scn \in {ScnNew([fault |-> f, upstream |-> u, strategy |-> st, expect |-> e]) :
                   f \in ItemFaults, u \in UpstreamEntries,
                   st \in ItemStrategies, e \in ItemExpectations}

NextScenario ==
    \/ ScnBuildItemList
    \/ \E k \in 1..(MaxCount + 1), resp \in Responses : ScnExecuteItem(k, resp)

SpecScenario == InitScenario /\ [][NextScenario]_vars

(***************************************************************************)
(* SpecHttp: one passthrough forward request through Forward::execute     *)
(* (proxy/forward.rs): the request the upstream receives and the response *)
(* the client receives.  A header map is a function from the field names  *)
(* to the sequences of their values, as http::HeaderMap is a multimap.    *)
(***************************************************************************)
HeaderValues == {"x", "y"}

\* The sequences of values one field can carry, none included.
ValueLists == UNION {[1..n -> HeaderValues] : n \in 0..MaxValues}

\* The end-to-end field of the requests and the one of the responses.
RequestHeaderMaps == {[name \in {"accept"} |-> vs] : vs \in ValueLists}

ResponseHeaderMaps == {[name \in {"set-cookie"} |-> vs] : vs \in ValueLists}

\* convert_headers_to_reqwest and convert_headers_to_axum: for every
\* (key, value) of headers.iter(), insert(key, value); an insert replaces
\* the values the key has so far, so the last value of a field wins.
ConvertHeaders(headers) ==
    [name \in DOMAIN headers |->
        IF headers[name] = <<>>
        THEN <<>>
        ELSE <<headers[name][Len(headers[name])]>>]

HttpNew(method, headers, body) ==
    [pc |-> "received",
     request |-> [method |-> method, headers |-> headers, body |-> body],
     upstream_req |-> [method |-> "", headers |-> <<>>, body |-> ""],
     response |-> [status |-> 0, headers |-> <<>>, body |-> ""],
     reply |-> [status |-> 0, headers |-> <<>>, body |-> ""]]

\* The request is read and the reqwest request is built from the method,
\* the converted headers and the body bytes.
HttpBuildRequest ==
    /\ http.pc = "received"
    /\ http' = [http EXCEPT
                   !.pc = "built",
                   !.upstream_req = [method |-> http.request.method,
                                     headers |-> ConvertHeaders(http.request.headers),
                                     body |-> http.request.body]]
    /\ UNCHANGED notHttp

\* client.execute(upstream_req): the upstream's response, or an error.
HttpExecute(ok, status, headers, body) ==
    /\ http.pc = "built"
    /\ http' = IF ok
               THEN [http EXCEPT !.pc = "responded",
                                 !.response = [status |-> status, headers |-> headers,
                                               body |-> body]]
               ELSE [http EXCEPT !.pc = "failed"]
    /\ UNCHANGED notHttp

\* The axum response is built from the status, the converted headers and
\* the body bytes.
HttpBuildResponse ==
    /\ http.pc = "responded"
    /\ http' = [http EXCEPT
                   !.pc = "replied",
                   !.reply = [status |-> http.response.status,
                              headers |-> ConvertHeaders(http.response.headers),
                              body |-> http.response.body]]
    /\ UNCHANGED notHttp

InitHttp ==
    /\ RestIdleExcept("http")
    /\ http \in {HttpNew(method, headers, body) :
                    method \in {"GET", "POST"}, headers \in RequestHeaderMaps,
                    body \in {"", "b"}}

NextHttp ==
    \/ HttpBuildRequest
    \/ \E ok \in BOOLEAN, status \in {200, 404}, headers \in ResponseHeaderMaps,
          body \in {"", "b"} : HttpExecute(ok, status, headers, body)
    \/ HttpBuildResponse

SpecHttp == InitHttp /\ [][NextHttp]_vars

(***************************************************************************)
(* SpecDns: a client whose resolver is FaultyResolverInjector             *)
(* (fault/dns.rs), installed by DnsFaultPlugin::prepare_client             *)
(* (plugin/builtin/dns.rs) with the event handle of the request.           *)
(***************************************************************************)
\* settings.dns_rate, in percent.
DnsRates == {0, 50, 100}

\* DnsFaultPlugin::new_from_settings and should_apply_fault_resolver:
\* rng.gen_bool(dns_rate / 100), which is never true for a probability of 0
\* and always true for a probability of 1.
ShouldApplyFaultResolver(rate) ==
    IF rate = 0 THEN {FALSE}
    ELSE IF rate = 100 THEN {TRUE}
    ELSE BOOLEAN

\* A resolver that reports only the lookups it fails.
ResolveFaultFlagsTriggeredOnly(apply_fault) ==
    IF apply_fault THEN <<TRUE>> ELSE <<>>

\* The `triggered` flags of the FaultEvent::Dns events one resolve sends
\* through event.with_fault: one, in either branch.
ResolveFaultFlags(apply_fault) == <<apply_fault>>

\* FaultyResolverInjector::resolve: the simulated failure is returned before
\* the inner resolver is looked at; otherwise the result is the one of
\* inner.lookup_ip(host).
Resolve(hostname, apply_fault, inner_ok) ==
    IF apply_fault
    THEN [hostname |-> hostname, outcome |-> "failed", inner_called |-> FALSE,
          result |-> "Simulated DNS resolution failure"]
    ELSE [hostname |-> hostname, outcome |-> "delegated", inner_called |-> TRUE,
          result |-> IF inner_ok THEN "addrs" ELSE "lookup error"]

\* apply_on_request_builder: the resolver is cloned with the event handle
\* and set on the client builder.
DnsNew(rate) == [pc |-> "installed", rate |-> rate, lookups |-> <<>>, flags |-> <<>>]

\* TaskManager::new: counter starts at 1, the id of the first handle, which
\* is the one the resolver holds.
FirstTaskId == 1

\* The client resolves a hostname.
DnsResolve(hostname, inner_ok) ==
    /\ dns.pc = "installed"
    /\ Len(dns.lookups) < MaxLookups
    /\ \E apply_fault \in ShouldApplyFaultResolver(dns.rate) :
         /\ dns' = [dns EXCEPT
                       !.lookups = Append(@, Resolve(hostname, apply_fault, inner_ok)),
                       !.flags = @ \o ResolveFaultFlags(apply_fault)]
         /\ bus' = FaultTaskEventSend(bus, FirstTaskId,
                       [k \in 1..Len(ResolveFaultFlags(apply_fault)) |-> "WithFault"])
    /\ UNCHANGED <<dataVars, counter, handles, bw, lat, flow, listener, scn, http, sub, moreVars, lateVars>>

InitDns ==
    /\ RestIdleExcept("dns")
    /\ dns \in {DnsNew(rate) : rate \in DnsRates}

NextDns ==
    \E hostname \in {"a", "b"}, inner_ok \in BOOLEAN : DnsResolve(hostname, inner_ok)

SpecDns == InitDns /\ [][NextDns]_vars

(***************************************************************************)
(* SpecBus: the broadcast channel of TaskManager (event.rs), a producer    *)
(* holding a FaultTaskEvent, and one subscriber: none (the receiver was    *)
(* dropped), handle_displayable_events (termui.rs) or                      *)
(* handle_scenario_events (scenario.rs), which also receives from the      *)
(* scenario channel.                                                       *)
(***************************************************************************)
\* The capacity TaskManager::new is given.
BusCapacity == 2

\* usize::next_power_of_two.
RECURSIVE PowerOfTwoFrom(_, _)
PowerOfTwoFrom(p, n) == IF p >= n THEN p ELSE PowerOfTwoFrom(2 * p, n)

NextPowerOfTwo(n) == PowerOfTwoFrom(1, n)

\* broadcast::channel(capacity) rounds the capacity up to a power of two.
ChannelCapacity == NextPowerOfTwo(BusCapacity)

SubscriberKinds == {"none", "termui", "scenario"}

\* broadcast::Sender::send: an error when there is no receiver, and the
\* value is not kept; otherwise the value takes the next position, the
\* oldest one being overwritten when the buffer is full.
BroadcastSend(chan, rx_cnt, v) ==
    IF rx_cnt = 0
    THEN [chan |-> chan, result |-> "Err"]
    ELSE [chan |-> Append(chan, v), result |-> "Ok"]

\* A handle whose methods return what send returned.
FaultTaskEventResultPropagates(send_result) == send_result

\* FaultTaskEvent::on_*: `let _ = sender.send(event); Ok(())`.
FaultTaskEventResult(send_result) == "Ok"

\* The oldest position still in the buffer, counted from 0.
OldestRetained(chan) ==
    IF Len(chan) > ChannelCapacity THEN Len(chan) - ChannelCapacity ELSE 0

\* broadcast::Receiver::recv for a receiver that has passed `next`
\* positions: Lagged(n) and a jump to the oldest retained position when it
\* fell behind; the next value; Closed once every sender is gone and the
\* buffer is drained; pending otherwise.
BroadcastRecv(chan, next, senders) ==
    IF next < OldestRetained(chan)
    THEN [r |-> "Lagged", n |-> OldestRetained(chan) - next,
          next |-> OldestRetained(chan)]
    ELSE IF next < Len(chan)
    THEN [r |-> "Ok", n |-> next + 1, next |-> next + 1]
    ELSE IF ~senders
    THEN [r |-> "Closed", n |-> 0, next |-> next]
    ELSE [r |-> "Pending", n |-> 0, next |-> next]

\* TaskManager::new and the spawn of the subscriber, if any.
SubNew(kind) ==
    [pc |-> IF kind = "none" THEN "dropped" ELSE "recv",
     kind |-> kind,
     rx_cnt |-> IF kind = "none" THEN 0 ELSE 1,
     senders |-> TRUE,
     chan |-> <<>>,
     next |-> 0,
     received |-> <<>>,
     told |-> <<>>,
     results |-> <<>>,
     scenario_open |-> TRUE,
     scenario_sent |-> 0,
     scenario_seen |-> 0,
     left_on |-> "none"]

\* The producer calls method m of its FaultTaskEvent.
SubEmit(m) ==
    /\ sub.pc # "none"
    /\ sub.senders
    /\ Len(bus) < MaxEmits
    /\ bus' = FaultTaskEventSend(bus, FirstTaskId, <<EventOfMethod(m)>>)
    /\ LET sent == BroadcastSend(sub.chan, sub.rx_cnt, Len(bus) + 1)
       IN sub' = [sub EXCEPT
                     !.chan = sent.chan,
                     !.results = Append(@, FaultTaskEventResult(sent.result))]
    /\ UNCHANGED notSub

\* The TaskManager and every handle are dropped.
SubDropSenders ==
    /\ sub.pc # "none"
    /\ sub.senders
    /\ sub' = [sub EXCEPT !.senders = FALSE]
    /\ UNCHANGED <<notSub, bus>>

\* The `receiver.recv()` branch of the subscriber's select!: an event is
\* handled, a Lagged(count) is reported and the loop goes on, Closed breaks
\* the loop, after which the receiver is dropped.
SubRecvBus ==
    /\ sub.pc = "recv"
    /\ LET got == BroadcastRecv(sub.chan, sub.next, sub.senders)
       IN /\ got.r # "Pending"
          /\ sub' = [sub EXCEPT
                        !.next = got.next,
                        !.received = IF got.r = "Ok" THEN Append(@, got.n) ELSE @,
                        !.told = IF got.r = "Lagged"
                                 THEN Append(@, [count |-> got.n,
                                                 first |-> sub.next + 1,
                                                 last |-> got.next,
                                                 tail |-> Len(sub.chan)])
                                 ELSE @,
                        !.pc = IF got.r = "Closed" THEN "left" ELSE @,
                        !.rx_cnt = IF got.r = "Closed" THEN 0 ELSE @,
                        !.left_on = IF got.r = "Closed" THEN "bus" ELSE @]
    /\ UNCHANGED <<notSub, bus>>

\* The scenario runner sends a ScenarioItemEvent.
ScenarioSend ==
    /\ sub.pc # "none"
    /\ sub.kind = "scenario"
    /\ sub.scenario_open
    /\ sub.scenario_sent < MaxScenarioEvents
    /\ sub' = [sub EXCEPT !.scenario_sent = @ + 1]
    /\ UNCHANGED <<notSub, bus>>

\* The scenario runner drops its sender.
ScenarioDropSender ==
    /\ sub.pc # "none"
    /\ sub.kind = "scenario"
    /\ sub.scenario_open
    /\ sub' = [sub EXCEPT !.scenario_open = FALSE]
    /\ UNCHANGED <<notSub, bus>>

\* The `scenario_event_receiver.recv()` branch of handle_scenario_events:
\* an event is handled, Closed breaks the loop.
SubRecvScenario ==
    /\ sub.pc = "recv"
    /\ sub.kind = "scenario"
    /\ \/ /\ sub.scenario_seen < sub.scenario_sent
          /\ sub' = [sub EXCEPT !.scenario_seen = @ + 1]
       \/ /\ sub.scenario_seen = sub.scenario_sent
          /\ ~sub.scenario_open
          /\ sub' = [sub EXCEPT !.pc = "left", !.rx_cnt = 0,
                                !.left_on = "scenario"]
    /\ UNCHANGED <<notSub, bus>>

InitBus ==
    /\ RestIdleExcept("sub")
    /\ sub \in {SubNew(kind) : kind \in SubscriberKinds}

NextBus ==
    \/ \E m \in Methods : SubEmit(m)
    \/ SubDropSenders
    \/ SubRecvBus
    \/ ScenarioSend
    \/ ScenarioDropSender
    \/ SubRecvScenario

SpecBus == InitBus /\ [][NextBus]_vars

(***************************************************************************)
(* SpecReport: Report::save (reporting.rs) on one path of a file system.   *)
(***************************************************************************)
\* Paths, by what they end with.
ReportPaths == {"r.json", "r.yaml", "r.yml", "r.txt", "r"}

\* path.ends_with(".json"), and path.ends_with(".yaml") || ends_with(".yml").
FormatOfPath(path) ==
    CASE path = "r.json" -> "json"
      [] path \in {"r.yaml", "r.yml"} -> "yaml"
      [] OTHER -> "unsupported"

\* Report.items, by the decision of each item.
Reports == UNION {[1..n -> {"success", "failure"}] : n \in 0..MaxItems}

\* What the file at the path holds: nothing (no file), or some content.
NoFile == [exists |-> FALSE, format |-> "none", items |-> <<>>]

OldFile == [exists |-> TRUE, format |-> "old", items |-> <<>>]

\* File::create: the file exists and is empty.
Truncated == [exists |-> TRUE, format |-> "empty", items |-> <<>>]

\* serde_json::to_writer_pretty / serde_yaml::to_writer on the file.
Written(format, report) == [exists |-> TRUE, format |-> format, items |-> report]

RepNew(path, report, file) ==
    [pc |-> "ready", path |-> path, report |-> report, before |-> file,
     file |-> file, result |-> "none"]

\* Report::save: the file is created first, then the extension is looked at.
Save(r, create_ok) ==
    IF ~create_ok
    THEN [r EXCEPT !.pc = "returned", !.result = "IoError"]
    ELSE IF FormatOfPath(r.path) = "unsupported"
    THEN [r EXCEPT !.pc = "returned", !.file = Truncated,
                   !.result = "ReportError"]
    ELSE [r EXCEPT !.pc = "returned",
                   !.file = Written(FormatOfPath(r.path), r.report),
                   !.result = "Ok"]

ReportSave(create_ok) ==
    /\ rep.pc = "ready"
    /\ rep' = Save(rep, create_ok)
    /\ UNCHANGED notRep

InitReport ==
    /\ RestIdleExcept("rep")
    /\ rep \in {RepNew(path, report, file) :
                  path \in ReportPaths, report \in Reports,
                  file \in {NoFile, OldFile}}

NextReport == \E create_ok \in BOOLEAN : ReportSave(create_ok)

SpecReport == InitReport /\ [][NextReport]_vars

(***************************************************************************)
(* SpecSelect: the allow-list as it is installed (main.rs for --upstream,  *)
(* execute_item for a scenario item) and the passthrough decision of the   *)
(* request handler (proxy/mod.rs).  A string "scheme://host:port" is the   *)
(* record of its parts, an absent scheme being "none" and an absent port   *)
(* NoPort, so that two strings are equal iff their records are.            *)
(***************************************************************************)
NoPort == 0

SelHosts == {"a", "b"}

SelPorts == {NoPort, 80, 443}

Text(scheme, host, port) == [scheme |-> scheme, host |-> host, port |-> port]

\* What an allow-list entry can be written as: host, host:port, or a URL.
AllowEntries ==
    {Text(scheme, host, port) :
        scheme \in {"none", "http", "https"}, host \in SelHosts, port \in SelPorts}

\* The requests: the scheme of the request URI ("http" when it has none),
\* and its authority or Host header.
SelRequests ==
    {Text(scheme, host, port) :
        scheme \in {"http", "https"}, host \in SelHosts, port \in SelPorts}

\* Url::port_or_known_default: the port written, or the default of a scheme
\* that has one.
PortOrKnownDefault(scheme, port) ==
    IF port # NoPort THEN Some(port)
    ELSE IF scheme = "http" THEN Some(80)
    ELSE IF scheme = "https" THEN Some(443)
    ELSE None

\* get_host: "host:port" of the upstream URL.
GetHost(req) ==
    Text("none", req.host, PortOrKnownDefault(req.scheme, req.port).v)

\* upstream_to_addr: an entry without "://" is parsed as "scheme://entry",
\* and port_or_known_default().unwrap() panics when that gives no port.
UpstreamToAddrText(entry) ==
    LET scheme == IF entry.scheme = "none" THEN "scheme" ELSE entry.scheme
        port == PortOrKnownDefault(scheme, entry.port)
    IN IF port.some
       THEN [r |-> "ok", addr |-> Text("none", entry.host, port.v)]
       ELSE [r |-> "panic", addr |-> entry]

\* main: state.update_upstream_hosts(cli.upstream_hosts), the entries as
\* they were typed.
CliUpstreamHosts(entries) == entries

SelNew(source, entries) ==
    [pc |-> "start", source |-> source, entries |-> entries,
     installed |-> FALSE, hosts |-> {},
     request |-> Text("none", "a", NoPort), passthrough |-> TRUE]

\* The allow-list is installed: by main from the command line, or by
\* execute_item from the item's upstreams.
SelInstall ==
    /\ sel.pc = "start"
    /\ sel' =
         IF sel.source = "cli"
         THEN [sel EXCEPT !.pc = "installed", !.installed = TRUE,
                          !.hosts = CliUpstreamHosts(sel.entries)]
         ELSE IF \E e \in sel.entries : UpstreamToAddrText(e).r = "panic"
         THEN [sel EXCEPT !.pc = "panicked"]
         ELSE [sel EXCEPT !.pc = "installed", !.installed = TRUE,
                          !.hosts = {UpstreamToAddrText(e).addr : e \in sel.entries}]
    /\ UNCHANGED notSel

\* The handler's decision for one request: passthrough unless
\* hosts.contains(&get_host(&upstream)).
SelDecide(req) ==
    /\ sel.pc \in {"start", "installed"}
    /\ sel' = [sel EXCEPT !.pc = "decided", !.request = req,
                          !.passthrough = ~(GetHost(req) \in sel.hosts)]
    /\ UNCHANGED notSel

InitSelect ==
    /\ RestIdleExcept("sel")
    /\ sel \in {SelNew(source, entries) :
                  source \in {"cli", "scenario"},
                  entries \in {{}} \cup {{e} : e \in AllowEntries}}

NextSelect ==
    \/ SelInstall
    \/ \E req \in SelRequests : SelDecide(req)

SpecSelect == InitSelect /\ [][NextSelect]_vars

(***************************************************************************)
(* SpecJitter: a JitterStream (fault/jitter.rs) being polled for reads and *)
(* writes while time passes.                                               *)
(***************************************************************************)
\* No sleep is stored / a sleep with so many ticks left.
NoSleep == [armed |-> FALSE, remaining |-> 0]

Sleep(d) == [armed |-> TRUE, remaining |-> d]

\* JitterStream::new: no sleep on either side.
JitNew(direction) ==
    [pc |-> "wrapped", direction |-> direction,
     read_sleep |-> NoSleep, write_sleep |-> NoSleep,
     polls |-> 0, inner_polls |-> 0,
     last |-> [op |-> "none", armed_before |-> FALSE, unexpired_before |-> FALSE,
               decision |-> "none", inner |-> FALSE]]

\* The body of poll_read (on read_sleep, for an ingress direction) and of
\* poll_write (on write_sleep, for an egress direction): a stored sleep is
\* polled, and Pending returns; with no sleep stored, should_jitter decides
\* and a sleep of generate_jitter is stored; in every case but the Pending
\* one the poll then goes on to the stream.
JitterPoll(applies, slp, should_jitter, d) ==
    IF ~applies
    THEN [sleep |-> slp, decision |-> "none", inner |-> TRUE]
    ELSE IF slp.armed
    THEN IF slp.remaining > 0
         THEN [sleep |-> slp, decision |-> "none", inner |-> FALSE]
         ELSE [sleep |-> NoSleep, decision |-> "none", inner |-> TRUE]
    ELSE IF should_jitter
    THEN [sleep |-> Sleep(d), decision |-> "inject", inner |-> TRUE]
    ELSE [sleep |-> slp, decision |-> "skip", inner |-> TRUE]

JitLast(op, slp, out) ==
    [op |-> op, armed_before |-> slp.armed,
     unexpired_before |-> slp.armed /\ slp.remaining > 0,
     decision |-> out.decision, inner |-> out.inner]

\* JitterStream::poll_read
JitterStream_poll_read(should_jitter, d) ==
    /\ jit.pc = "wrapped"
    /\ jit.polls < MaxPolls
    /\ LET out == JitterPoll(is_ingress(jit.direction), jit.read_sleep,
                             should_jitter, d)
       IN jit' = [jit EXCEPT !.read_sleep = out.sleep,
                             !.polls = @ + 1,
                             !.inner_polls = IF out.inner THEN @ + 1 ELSE @,
                             !.last = JitLast("read", jit.read_sleep, out)]
    /\ UNCHANGED notJit

\* JitterStream::poll_write
JitterStream_poll_write(should_jitter, d) ==
    /\ jit.pc = "wrapped"
    /\ jit.polls < MaxPolls
    /\ LET out == JitterPoll(is_egress(jit.direction), jit.write_sleep,
                             should_jitter, d)
       IN jit' = [jit EXCEPT !.write_sleep = out.sleep,
                             !.polls = @ + 1,
                             !.inner_polls = IF out.inner THEN @ + 1 ELSE @,
                             !.last = JitLast("write", jit.write_sleep, out)]
    /\ UNCHANGED notJit

\* One tick passes on the timers of the stored sleeps.
JitTick ==
    /\ jit.pc = "wrapped"
    /\ jit.read_sleep.remaining > 0 \/ jit.write_sleep.remaining > 0
    /\ jit' = [jit EXCEPT
                  !.read_sleep.remaining = IF @ > 0 THEN @ - 1 ELSE @,
                  !.write_sleep.remaining = IF @ > 0 THEN @ - 1 ELSE @]
    /\ UNCHANGED notJit

InitJitter ==
    /\ RestIdleExcept("jit")
    /\ jit \in {JitNew(direction) : direction \in Directions}

NextJitter ==
    \/ \E should_jitter \in BOOLEAN, d \in Delays :
          JitterStream_poll_read(should_jitter, d)
    \/ \E should_jitter \in BOOLEAN, d \in Delays :
          JitterStream_poll_write(should_jitter, d)
    \/ JitTick

SpecJitter == InitJitter /\ [][NextJitter]_vars

(***************************************************************************)
(* SpecPacketLoss: a PacketLossLimitedRead or PacketLossLimitedWrite       *)
(* (fault/packet_loss.rs) with the default strategy.  Probabilities are in *)
(* hundredths, and a uniform variate is the number of hundredths below it. *)
(***************************************************************************)
MultiStates == {"Excellent", "Good", "Fair", "Poor", "Bad"}

\* MultiState::from_index
from_index(index) ==
    CASE index = 0 -> "Excellent"
      [] index = 1 -> "Good"
      [] index = 2 -> "Fair"
      [] index = 3 -> "Poor"
      [] index = 4 -> "Bad"
      [] OTHER -> "Good"

\* MultiState::to_index
to_index(state) ==
    CASE state = "Excellent" -> 0
      [] state = "Good" -> 1
      [] state = "Fair" -> 2
      [] state = "Poor" -> 3
      [] state = "Bad" -> 4

\* PacketLossStrategy::default: the rows of Excellent, Good, Fair, Poor, Bad.
TransitionMatrix ==
    << <<90, 10, 0, 0, 0>>,
       <<5, 90, 5, 0, 0>>,
       <<0, 10, 80, 10, 0>>,
       <<0, 0, 20, 70, 10>>,
       <<0, 0, 0, 30, 70>> >>

LossProbabilities == <<0, 1, 5, 10, 20>>

\* Values of rng.gen::<f64>(): one in every interval that the cumulative
\* sums of the rows, and the loss probabilities, cut [0, 1) into.
TransitionDraws == {0, 5, 10, 20, 30, 90, 95}

LossDraws == {0, 1, 5, 10, 20}

\* The loop over the row: the first index whose cumulative sum exceeds
\* rand_val, or the current index when there is none.
RECURSIVE NewStateFrom(_, _, _, _, _)
NewStateFrom(row, rand_val, i, cumulative, current_index) ==
    IF i > Len(row) THEN current_index
    ELSE IF rand_val < cumulative + row[i] THEN i - 1
    ELSE NewStateFrom(row, rand_val, i + 1, cumulative + row[i], current_index)

NewState(current_index, rand_val) ==
    NewStateFrom(TransitionMatrix[current_index + 1], rand_val, 1, 0, current_index)

\* A chain whose drop decision looks at the state it leaves.
LossIndexOfOldState(current_index, new_state) == current_index

\* `loss_probabilities[new_state]`
LossIndex(current_index, new_state) == new_state

\* A dropped poll that reports the whole buffer as moved.
DroppedWholeBuffer(requested) == [r |-> "ready", n |-> requested]

\* A dropped poll that is reported as a failed one.
DroppedAsError(requested) == [r |-> "err", n |-> 0]

\* The dropped poll: buf.advance(0) and Poll::Ready(Ok(())) for a read,
\* Poll::Ready(Ok(0)) for a write.
Dropped(requested) == [r |-> "ready", n |-> 0]

\* PacketLossLimitedRead::new / PacketLossLimitedWrite::new
PlNew(kind) ==
    [pc |-> "wrapped", kind |-> kind, state |-> "Good", polls |-> 0, steps |-> 0,
     inner_polls |-> 0, moved |-> 0, events |-> 0,
     last |-> [from |-> "Good", to |-> "Good", should_drop |-> FALSE,
               inner |-> FALSE, requested |-> 0,
               result |-> [r |-> "none", n |-> 0],
               outcome |-> [r |-> "none", n |-> 0], moved_before |-> 0]]

\* The body of poll_read and of poll_write: the chain moves, the drop is
\* decided, and the poll is answered without the stream or handed to it.
PlPoll(w, requested, rand_val, loss_val, outcome) ==
    LET current_index == to_index(w.state)
        new_state == NewState(current_index, rand_val)
        should_drop ==
            loss_val < LossProbabilities[LossIndex(current_index, new_state) + 1]
        result == IF should_drop THEN Dropped(requested) ELSE outcome
    IN  [w EXCEPT
            !.state = from_index(new_state),
            !.polls = @ + 1,
            !.steps = @ + 1,
            !.inner_polls = IF should_drop THEN @ ELSE @ + 1,
            !.moved = IF should_drop THEN @ ELSE @ + outcome.n,
            !.events = IF should_drop THEN @ + 1 ELSE @,
            !.last = [from |-> w.state, to |-> from_index(new_state),
                      should_drop |-> should_drop, inner |-> ~should_drop,
                      requested |-> requested, result |-> result,
                      outcome |-> outcome, moved_before |-> w.moved]]

\* PacketLossLimitedRead::poll_read
PacketLossLimitedRead_poll_read(requested, rand_val, loss_val, outcome) ==
    /\ pl.pc = "wrapped" /\ pl.kind = "read"
    /\ pl.polls < MaxPolls
    /\ pl' = PlPoll(pl, requested, rand_val, loss_val, outcome)
    /\ UNCHANGED notPl

\* PacketLossLimitedWrite::poll_write
PacketLossLimitedWrite_poll_write(requested, rand_val, loss_val, outcome) ==
    /\ pl.pc = "wrapped" /\ pl.kind = "write"
    /\ pl.polls < MaxPolls
    /\ pl' = PlPoll(pl, requested, rand_val, loss_val, outcome)
    /\ UNCHANGED notPl

InitPacketLoss ==
    /\ RestIdleExcept("pl")
    /\ pl \in {PlNew(kind) : kind \in {"read", "write"}}

NextPacketLoss ==
    \E requested \in 1..MaxValues, rand_val \in TransitionDraws,
       loss_val \in LossDraws :
        \E outcome \in InnerOutcomes(requested) :
            \/ PacketLossLimitedRead_poll_read(requested, rand_val, loss_val, outcome)
            \/ PacketLossLimitedWrite_poll_write(requested, rand_val, loss_val, outcome)

SpecPacketLoss == InitPacketLoss /\ [][NextPacketLoss]_vars

(***************************************************************************)
(* SpecJoin: handle_scenario_events (scenario.rs), the task that joins the *)
(* scenario channel (execute_request's Started and Terminated) and the     *)
(* proxy's broadcast channel into per-item lifecycles.  Item k is the k-th *)
(* request through the proxy, whose task has the k-th TaskId.              *)
(***************************************************************************)
\* The TaskId of the proxy task that serves item k: the counter starts at
\* FirstTaskId and each request takes the next value.
TaskIdOfItem(k) == FirstTaskId + k - 1

\* ScenarioItemLifecycle::new(url): no fault recorded.  The url names the
\* item.
ScenarioItemLifecycleNew(url) == [url |-> url, faults |-> <<>>]

\* ScenarioItemLifecycleFaults::new, with `computed` set.
ScenarioItemLifecycleFaultsNew(id) == [id |-> id, computed |-> TRUE, applied |-> 0]

\* HashMap::insert(id, f) on the map kept as a sequence of entries.
FaultsInsert(faults, f) == SelectSeq(faults, LAMBDA e : e.id # f.id) \o <<f>>

\* `if let Some(f) = item.faults.get_mut(&id) { f.applied.push(..) }`
FaultsPushApplied(faults, id) ==
    [k \in 1..Len(faults) |->
        IF faults[k].id = id THEN [faults[k] EXCEPT !.applied = @ + 1]
        ELSE faults[k]]

\* The scenario branch of the select!: Started replaces `current`,
\* Terminated pushes a clone of `current` on the queue.
OnScenarioEvent(j, ev) ==
    IF ev.type = "Started"
    THEN [j EXCEPT !.current = Some(ScenarioItemLifecycleNew(ev.id))]
    ELSE IF j.current.some
    THEN [j EXCEPT !.queue = Append(@, j.current.v)]
    ELSE j

\* The proxy branch of the select!: the event goes to `current`, if any.
OnProxyEvent(j, ev) ==
    IF ~j.current.some THEN j
    ELSE IF ev.type = "FaultComputed"
    THEN [j EXCEPT !.current.v.faults =
             FaultsInsert(@, ScenarioItemLifecycleFaultsNew(ev.id))]
    ELSE IF ev.type = "FaultApplied"
    THEN [j EXCEPT !.current.v.faults = FaultsPushApplied(@, ev.id)]
    ELSE j

\* The join task is spawned with both receivers and an empty queue.
JoinNew ==
    [pc |-> "recv", item |-> 0, running |-> FALSE,
     scenario_chan |-> <<>>, proxy_chan |-> <<>>,
     scenario_seen |-> 0, proxy_seen |-> 0,
     current |-> None, queue |-> <<>>]

\* The events the proxy has sent for the task of item k.
ProxyEventsOfItem(j, k) ==
    SelectSeq(j.proxy_chan, LAMBDA e : e.id = TaskIdOfItem(k))

\* execute_request: new_event, on_started(url).
JoinItemStarted ==
    /\ join.pc = "recv"
    /\ ~join.running
    /\ join.item < MaxItems
    /\ join' = [join EXCEPT
                    !.item = @ + 1,
                    !.running = TRUE,
                    !.scenario_chan = Append(@, [type |-> "Started", id |-> join.item + 1])]
    /\ UNCHANGED notJoin

\* The proxy task of the running item sends a fault event: first the fault
\* it computed, then one event per application.
JoinProxyEmit ==
    /\ join.pc = "recv"
    /\ join.running
    /\ Len(ProxyEventsOfItem(join, join.item)) < MaxTaskEvents
    /\ join' = [join EXCEPT
                    !.proxy_chan =
                        Append(@, [type |-> IF ProxyEventsOfItem(join, join.item) = <<>>
                                            THEN "FaultComputed"
                                            ELSE "FaultApplied",
                                   id |-> TaskIdOfItem(join.item)])]
    /\ UNCHANGED notJoin

\* execute_request: the body has been read, on_terminated().
JoinItemTerminated ==
    /\ join.pc = "recv"
    /\ join.running
    /\ join' = [join EXCEPT
                    !.running = FALSE,
                    !.scenario_chan = Append(@, [type |-> "Terminated", id |-> join.item])]
    /\ UNCHANGED notJoin

\* select! takes the scenario branch: its receiver has an event.
JoinRecvScenario ==
    /\ join.pc = "recv"
    /\ join.scenario_seen < Len(join.scenario_chan)
    /\ join' = [OnScenarioEvent(join, join.scenario_chan[join.scenario_seen + 1])
                    EXCEPT !.scenario_seen = @ + 1]
    /\ UNCHANGED notJoin

\* select! takes the proxy branch: its receiver has an event.
JoinRecvProxy ==
    /\ join.pc = "recv"
    /\ join.proxy_seen < Len(join.proxy_chan)
    /\ join' = [OnProxyEvent(join, join.proxy_chan[join.proxy_seen + 1])
                    EXCEPT !.proxy_seen = @ + 1]
    /\ UNCHANGED notJoin

InitJoin ==
    /\ RestIdleExcept("join")
    /\ join = JoinNew

NextJoin ==
    \/ JoinItemStarted
    \/ JoinProxyEmit
    \/ JoinItemTerminated
    \/ JoinRecvScenario
    \/ JoinRecvProxy

SpecJoin == InitJoin /\ [][NextJoin]_vars

(***************************************************************************)
(* SpecTiming: the measurements of execute_request (scenario.rs) and its   *)
(* TimingStream, against a clock that advances between any two steps.      *)
(***************************************************************************)
\* Instant::elapsed and Instant::duration_since.
Elapsed(start, now) == now - start

\* TimingStream::new(stream, start).
TimingStreamNew(start) == [start |-> start, first_byte_time |-> None]

\* TimingStream::poll_next on Ready(Some(Ok(bytes))): first_byte_time is
\* set if it is not set yet.
TimingStreamOnChunk(ts, now) ==
    IF ~ts.first_byte_time.some
    THEN [ts EXCEPT !.first_byte_time = Some(now)]
    ELSE ts

\* `metrics.ttfb = ttfb_time.as_millis_f64()`, ttfb_time being
\* ttfb_start.elapsed() read after the loop over the body; ttfb_duration,
\* taken from first_byte_time, is computed and not used.
MetricsTtfb(ttfb_time, ttfb_duration) == ttfb_time

\* `metrics.total_time = conn_duration.as_millis_f64()`
MetricsTotalTime(conn_duration) == conn_duration

\* execute_request is entered; the clock reads 0.
TimNew ==
    [pc |-> "conn_start", now |-> 0, conn_start |-> 0, ttfb_start |-> 0,
     stream |-> TimingStreamNew(0), chunks |-> 0,
     conn_duration |-> 0, ttfb_time |-> 0, ttfb |-> 0, total_time |-> 0,
     result |-> "none"]

\* Time passes.
TimTick ==
    /\ tim.pc \notin {"none", "done", "failed"}
    /\ tim.now < MaxClock
    /\ tim' = [tim EXCEPT !.now = @ + 1]
    /\ UNCHANGED notTim

\* let conn_start = Instant::now();
TimConnStart ==
    /\ tim.pc = "conn_start"
    /\ tim' = [tim EXCEPT !.conn_start = tim.now, !.pc = "ttfb_start"]
    /\ UNCHANGED notTim

\* let ttfb_start = Instant::now();
TimTtfbStart ==
    /\ tim.pc = "ttfb_start"
    /\ tim' = [tim EXCEPT !.ttfb_start = tim.now, !.pc = "execute"]
    /\ UNCHANGED notTim

\* client.execute(request).await: an error is returned at once; otherwise
\* the body becomes a TimingStream started at ttfb_start.
TimExecute(ok) ==
    /\ tim.pc = "execute"
    /\ tim' = IF ok
              THEN [tim EXCEPT !.stream = TimingStreamNew(tim.ttfb_start),
                               !.pc = "stream"]
              ELSE [tim EXCEPT !.pc = "failed", !.result = "NetworkError"]
    /\ UNCHANGED notTim

\* timing_stream.next().await yields a chunk.
TimChunk ==
    /\ tim.pc = "stream"
    /\ tim.chunks < MaxChunks
    /\ tim' = [tim EXCEPT !.stream = TimingStreamOnChunk(@, tim.now),
                          !.chunks = @ + 1]
    /\ UNCHANGED notTim

\* timing_stream.next().await yields None, or an error that breaks the loop.
TimStreamEnds ==
    /\ tim.pc = "stream"
    /\ tim' = [tim EXCEPT !.pc = "conn_elapsed"]
    /\ UNCHANGED notTim

\* let conn_duration = conn_start.elapsed();
TimConnElapsed ==
    /\ tim.pc = "conn_elapsed"
    /\ tim' = [tim EXCEPT !.conn_duration = Elapsed(tim.conn_start, tim.now),
                          !.pc = "ttfb_elapsed"]
    /\ UNCHANGED notTim

\* let ttfb_time = ttfb_start.elapsed();
TimTtfbElapsed ==
    /\ tim.pc = "ttfb_elapsed"
    /\ tim' = [tim EXCEPT !.ttfb_time = Elapsed(tim.ttfb_start, tim.now),
                          !.pc = "metrics"]
    /\ UNCHANGED notTim

\* ttfb_duration, then the metrics are filled and returned.
TimMetrics ==
    /\ tim.pc = "metrics"
    /\ LET ttfb_duration ==
               IF tim.stream.first_byte_time.some
               THEN Elapsed(tim.stream.start, tim.stream.first_byte_time.v)
               ELSE 0
       IN tim' = [tim EXCEPT !.ttfb = MetricsTtfb(tim.ttfb_time, ttfb_duration),
                             !.total_time = MetricsTotalTime(tim.conn_duration),
                             !.pc = "done", !.result = "Ok"]
    /\ UNCHANGED notTim

InitTiming ==
    /\ RestIdleExcept("tim")
    /\ tim = TimNew

NextTiming ==
    \/ TimTick
    \/ TimConnStart
    \/ TimTtfbStart
    \/ \E ok \in BOOLEAN : TimExecute(ok)
    \/ TimChunk
    \/ TimStreamEnds
    \/ TimConnElapsed
    \/ TimTtfbElapsed
    \/ TimMetrics

SpecTiming == InitTiming /\ [][NextTiming]_vars

(***************************************************************************)
(* SpecBwPlugin: BandwidthPlugin (plugin/builtin/bandwidth.rs) on one      *)
(* forward request: process_request, the upstream call, process_response.  *)
(***************************************************************************)
\* A reqwest body: none, bytes held in memory, or a stream (as_bytes is
\* None).
RequestBodies == {"none", "bytes", "stream"}

\* BandwidthLimitFaultInjector::apply_on_request: with_fault is sent; a body
\* of bytes is replaced by a ReaderStream over a BandwidthLimitedRead, any
\* other request is returned as it is.
BandwidthApplyOnRequest(p) ==
    [p EXCEPT !.events = Append(@, [type |-> "WithFault", direction |-> "egress"]),
              !.request_limited = (p.body = "bytes")]

\* BandwidthLimitFaultInjector::apply_on_response: with_fault is sent and
\* the body is read through a BandwidthLimitedRead.
BandwidthApplyOnResponse(p) ==
    [p EXCEPT !.events = Append(@, [type |-> "WithFault", direction |-> "ingress"]),
              !.response_limited = TRUE]

\* BandwidthPlugin::process_request:
\* `match self.direction.is_ingress() { true => apply_on_request, false => Ok(req) }`
BandwidthProcessRequest(p) ==
    IF is_ingress(p.direction) THEN BandwidthApplyOnRequest(p) ELSE p

\* BandwidthPlugin::process_response: apply_on_response, whatever the
\* direction.
BandwidthProcessResponse(p) == BandwidthApplyOnResponse(p)

\* BandwidthPlugin::new_from_settings and a request that reaches it.
BwpNew(direction, rate, body, response_len) ==
    [pc |-> "request", direction |-> direction, rate |-> rate, body |-> body,
     response_len |-> response_len, request_limited |-> FALSE,
     response_limited |-> FALSE, events |-> <<>>]

BwpProcessRequest ==
    /\ bwp.pc = "request"
    /\ bwp' = [BandwidthProcessRequest(bwp) EXCEPT !.pc = "execute"]
    /\ UNCHANGED notBwp

\* client.execute(upstream_req): the response arrives.
BwpExecute ==
    /\ bwp.pc = "execute"
    /\ bwp' = [bwp EXCEPT !.pc = "response"]
    /\ UNCHANGED notBwp

BwpProcessResponse ==
    /\ bwp.pc = "response"
    /\ bwp' = [BandwidthProcessResponse(bwp) EXCEPT !.pc = "done"]
    /\ UNCHANGED notBwp

InitBwPlugin ==
    /\ RestIdleExcept("bwp")
    /\ bwp \in {BwpNew(d, r, b, n) : d \in Directions, r \in Rates,
                                     b \in RequestBodies, n \in 0..MaxValues}

NextBwPlugin ==
    \/ BwpProcessRequest
    \/ BwpExecute
    \/ BwpProcessResponse

SpecBwPlugin == InitBwPlugin /\ [][NextBwPlugin]_vars

(***************************************************************************)
(* SpecTransform: apply_on_response of the latency injector                *)
(* (fault/latency.rs) and of the bandwidth injector (fault/bandwidth.rs):  *)
(* the body is put in a Cursor, read back through the stream wrapper by a  *)
(* ReaderStream until a read fills nothing, and the response is rebuilt.   *)
(***************************************************************************)
\* A body of n bytes, each byte named by its position.
BodyOf(n) == [i \in 1..n |-> i]

\* The responses a transform is given.
XfResponses ==
    {[status |-> st, version |-> v, headers |-> h, body |-> BodyOf(n)] :
        st \in {"200", "404"}, v \in {"HTTP/1.1", "HTTP/2"},
        h \in {<<>>, <<"x-a">>}, n \in 0..MaxBytes}

\* Response::new(response_body), then version, status and headers are set
\* from the parts of the response that came in.
Reassemble(parts, response_body) ==
    [status |-> parts.status, version |-> parts.version,
     headers |-> parts.headers, body |-> response_body]

\* Cursor::poll_read: what is left of the body, up to the room of the buffer.
CursorRead(body, pos, room) == SubSeq(body, pos + 1, pos + Min(room, Len(body) - pos))

\* One chunk of the ReaderStream: a read that filled nothing ends the
\* stream, after which the response is rebuilt and returned; any other
\* read is appended to the buffer.
XfOnRead(x, bytes) ==
    IF bytes = <<>>
    THEN [x EXCEPT !.pc = "done", !.out = Reassemble(x.input, x.buffer)]
    ELSE [x EXCEPT !.buffer = @ \o bytes, !.pos = @ + Len(bytes)]

\* LatencyInjector::apply_on_response for side Server, and
\* BandwidthLimitFaultInjector::apply_on_response: the reader is built over
\* the body.
XfNew(kind, resp, reader) ==
    [pc |-> "streaming", kind |-> kind, input |-> resp, reader |-> reader,
     pos |-> 0, buffer |-> <<>>, out |-> resp]

\* LatencyInjector::apply_on_response for another side: `Ok(resp)`.
XfUntouched(resp) ==
    [pc |-> "done", kind |-> "latency", input |-> resp,
     reader |-> LatNew("read", FALSE), pos |-> 0, buffer |-> <<>>, out |-> resp]

\* reader_stream.next() polls BandwidthLimitedRead::poll_read with the
\* room of its buffer.
XfBandwidthPoll ==
    /\ xf.pc = "streaming" /\ xf.kind = "bandwidth"
    /\ xf.reader.woken
    /\ LET to_read == Min(xf.reader.max_size, MaxRequest)
           bytes == CursorRead(xf.input.body, xf.pos, ReadInnerLen(MaxRequest, to_read))
       IN  IF CheckN(xf.reader.tokens, to_read)
           THEN xf' = XfOnRead(
                         [xf EXCEPT !.reader =
                             [Granted(xf.reader, MaxRequest, to_read,
                                      [r |-> "ready", n |-> Len(bytes)])
                                 EXCEPT !.woken = TRUE]],
                         bytes)
           ELSE xf' = [xf EXCEPT !.reader = Throttled(xf.reader, MaxRequest, to_read)]
    /\ UNCHANGED notXf

\* 1/rate second passes on the limiter of the reader.
XfBandwidthTick ==
    /\ xf.pc = "streaming" /\ xf.kind = "bandwidth"
    /\ xf' = [xf EXCEPT !.reader =
                 [@ EXCEPT !.tokens = Min(xf.reader.max_size, @ + 1),
                           !.hist = Tail(@) \o <<0>>,
                           !.timer = "none",
                           !.woken = @ \/ xf.reader.timer = "armed"]]
    /\ UNCHANGED notXf

\* reader_stream.next() polls LatencyStreamRead::poll_read: the task runs,
\* or the timer of the sleep has woken it.
XfLatencyPoll ==
    /\ xf.pc = "streaming" /\ xf.kind = "latency"
    /\ ~xf.reader.armed \/ xf.reader.remaining = 0
    /\ \E delay \in Delays :
         LET l == LatPoll(xf.reader, delay)
         IN  IF l.last = "inner"
             THEN xf' = XfOnRead([xf EXCEPT !.reader = l],
                                 CursorRead(xf.input.body, xf.pos, MaxRequest))
             ELSE xf' = [xf EXCEPT !.reader = l]
    /\ UNCHANGED notXf

\* One tick passes on the timer of the reader's sleep.
XfLatencyTick ==
    /\ xf.pc = "streaming" /\ xf.kind = "latency"
    /\ xf.reader.armed /\ xf.reader.remaining > 0
    /\ xf' = [xf EXCEPT !.reader.remaining = @ - 1]
    /\ UNCHANGED notXf

InitTransform ==
    /\ RestIdleExcept("xf")
    /\ xf \in {XfNew("bandwidth", resp, [BwNew("read", rate) EXCEPT !.left = Len(resp.body)]) :
                    resp \in XfResponses, rate \in Rates}
              \cup {XfNew("latency", resp, LatNew("read", global)) :
                    resp \in XfResponses, global \in BOOLEAN}
              \cup {XfUntouched(resp) : resp \in XfResponses}

NextTransform ==
    \/ XfBandwidthPoll
    \/ XfBandwidthTick
    \/ XfLatencyPoll
    \/ XfLatencyTick

SpecTransform == InitTransform /\ [][NextTransform]_vars

(***************************************************************************)
(* SpecWrapperPoll: what a poll of a latency, bandwidth, jitter or         *)
(* packet-loss wrapper returns, next to what the stream under it returned  *)
(* on that poll, if it was polled.                                         *)
(***************************************************************************)
WrapperKinds == {"latency", "bandwidth", "jitter", "packetloss"}

\* The wrapper of each kind, as its constructor leaves it.
WrapperNew(kind, op, flag) ==
    CASE kind = "latency" -> LatNew(op, flag)
      [] kind = "bandwidth" -> BwNew(op, IF flag THEN 3 ELSE 2)
      [] kind = "jitter" -> NoSleep
      [] kind = "packetloss" -> PlNew(op)

WrNew(kind, op, flag) ==
    [pc |-> "wrapped", kind |-> kind, op |-> op, st |-> WrapperNew(kind, op, flag),
     polls |-> 0, held |-> 0, ret |-> "none", inner_polled |-> FALSE,
     inner_ret |-> "none"]

\* The return of a poll: that of the stream when the poll was handed to
\* it (`this.stream.poll_read(cx, buf)` is the tail of the function, and
\* the bandwidth wrappers map Ready(Err(e)) to Ready(Err(e)) and Pending to
\* Pending), and `answer` otherwise.
WrReturn(w, st, inner_polled, outcome, answer) ==
    [w EXCEPT !.st = st,
              !.polls = @ + 1,
              !.held = IF inner_polled THEN @ ELSE @ + 1,
              !.inner_polled = inner_polled,
              !.inner_ret = IF inner_polled THEN outcome.r ELSE "none",
              !.ret = IF inner_polled THEN outcome.r ELSE answer]

\* LatencyStreamRead::poll_read / LatencyStreamWrite::poll_write: Pending
\* while the sleep has time left.
WrLatencyPoll(delay, outcome) ==
    /\ wr.pc = "wrapped" /\ wr.kind = "latency"
    /\ wr.polls < MaxPolls
    /\ LET l == LatPoll(wr.st, delay)
       IN wr' = WrReturn(wr, l, l.last = "inner", outcome, "pending")
    /\ UNCHANGED notWr

\* BandwidthLimitedRead::poll_read / BandwidthLimitedWrite::poll_write:
\* Pending from the Err(_) arm of check_n.
WrBandwidthPoll(requested, outcome) ==
    /\ wr.pc = "wrapped" /\ wr.kind = "bandwidth"
    /\ wr.polls < MaxPolls
    /\ wr.st.left >= requested
    /\ outcome.n <= requested
    /\ LET to_move == Min(wr.st.max_size, requested)
       IN IF CheckN(wr.st.tokens, to_move)
          THEN wr' = WrReturn(wr, Granted(wr.st, requested, to_move, outcome),
                              TRUE, outcome, "pending")
          ELSE wr' = WrReturn(wr, Throttled(wr.st, requested, to_move),
                              FALSE, outcome, "pending")
    /\ UNCHANGED notWr

\* JitterStream::poll_read / poll_write: Pending while the stored sleep has
\* time left.
WrJitterPoll(should_jitter, d, outcome) ==
    /\ wr.pc = "wrapped" /\ wr.kind = "jitter"
    /\ wr.polls < MaxPolls
    /\ LET out == JitterPoll(TRUE, wr.st, should_jitter, d)
       IN wr' = WrReturn(wr, out.sleep, out.inner, outcome, "pending")
    /\ UNCHANGED notWr

\* PacketLossLimitedRead::poll_read / PacketLossLimitedWrite::poll_write:
\* the dropped poll is answered by the wrapper.
WrPacketLossPoll(rand_val, loss_val, outcome) ==
    /\ wr.pc = "wrapped" /\ wr.kind = "packetloss"
    /\ wr.polls < MaxPolls
    /\ outcome.n <= MaxValues
    /\ LET w == PlPoll(wr.st, MaxValues, rand_val, loss_val, outcome)
       IN wr' = WrReturn(wr, w, w.last.inner, outcome, w.last.result.r)
    /\ UNCHANGED notWr

\* Time passes on the wrapper's timer or limiter.
WrTick ==
    /\ wr.pc = "wrapped"
    /\ \/ /\ wr.kind \in {"latency", "jitter"}
          /\ wr.st.armed /\ wr.st.remaining > 0
          /\ wr' = [wr EXCEPT !.st.remaining = @ - 1]
       \/ /\ wr.kind = "bandwidth"
          /\ wr.st.tokens < wr.st.max_size
          /\ wr' = [wr EXCEPT !.st.tokens = @ + 1,
                              !.st.hist = Tail(@) \o <<0>>,
                              !.st.timer = "none"]
    /\ UNCHANGED notWr

InitWrapperPoll ==
    /\ RestIdleExcept("wr")
    /\ wr \in {WrNew(kind, op, flag) :
                  kind \in WrapperKinds, op \in {"read", "write"}, flag \in BOOLEAN}

NextWrapperPoll ==
    \/ \E delay \in Delays, outcome \in InnerOutcomes(MaxValues) :
          WrLatencyPoll(delay, outcome)
    \/ \E requested \in 1..MaxValues, outcome \in InnerOutcomes(MaxValues) :
          WrBandwidthPoll(requested, outcome)
    \/ \E should_jitter \in BOOLEAN, d \in Delays, outcome \in InnerOutcomes(MaxValues) :
          WrJitterPoll(should_jitter, d, outcome)
    \/ \E rand_val \in TransitionDraws, loss_val \in LossDraws,
          outcome \in InnerOutcomes(MaxValues) :
          WrPacketLossPoll(rand_val, loss_val, outcome)
    \/ WrTick

SpecWrapperPoll == InitWrapperPoll /\ [][NextWrapperPoll]_vars

(***************************************************************************)
(* Building a ProxyConfig: ProxyConfig::new on the scenario path, the      *)
(* command-line validators and new_dns, new_latency, new_bandwidth and     *)
(* new_jitter on the `run` path, and the watch channel that carries the    *)
(* result to the dataplane.  A real number is an integer here; what a      *)
(* check compares it with is 0 or another setting.                         *)
(***************************************************************************)
\* The settings of one fault; a field the kind does not have is 0.
FaultSettings(kind, dns_rate, distribution, mean, stddev, min, max, rate,
              amplitude, frequency) ==
    [kind |-> kind, dns_rate |-> dns_rate, distribution |-> distribution,
     latency_mean |-> mean, latency_stddev |-> stddev, latency_min |-> min,
     latency_max |-> max, bandwidth_rate |-> rate,
     jitter_amplitude |-> amplitude, jitter_frequency |-> frequency]

DnsSettings(rate) == FaultSettings("dns", rate, "none", 0, 0, 0, 0, 0, 0, 0)

LatencySettings(distribution, mean, stddev, min, max) ==
    FaultSettings("latency", 0, distribution, mean, stddev, min, max, 0, 0, 0)

BandwidthSettings(rate) ==
    FaultSettings("bandwidth", 0, "none", 0, 0, 0, 0, rate, 0, 0)

JitterSettings(amplitude, frequency) ==
    FaultSettings("jitter", 0, "none", 0, 0, 0, 0, 0, amplitude, frequency)

\* ProxyConfig::default: FaultConfig::Latency(LatencySettings::default()).
ProxyConfigDefault == LatencySettings("normal", 0, 0, 0, 0)

\* ProxyConfig::new: the validation, arm by arm.
ProxyConfigValidate(f) ==
    CASE f.kind = "dns" /\ f.dns_rate > 100 -> "InvalidConfiguration"
      [] f.kind = "latency" /\ f.latency_mean <= 0 -> "InvalidConfiguration"
      [] f.kind = "latency" /\ f.latency_stddev < 0 -> "InvalidConfiguration"
      [] f.kind = "bandwidth" /\ f.bandwidth_rate = 0 -> "InvalidConfiguration"
      [] f.kind = "jitter" /\ f.jitter_amplitude < 0 -> "InvalidConfiguration"
      [] f.kind = "jitter" /\ f.jitter_frequency < 0 -> "InvalidConfiguration"
      [] OTHER -> "Ok"

\* The value parsers of the command line: val.parse::<T>() and the guard.
\* A u8 is at most 255; the u32 rates spelled here are far below 2^32, so
\* its parse fails on a sign only.
validate_positive_u8(v) == v \in 0..255 /\ v > 0

validate_positive_u32(v) == v >= 0 /\ v > 0

validate_positive_f64(v) == v > 0

validate_non_negative_f64(v) == v >= 0

\* The parsers clap runs on the arguments of one `run` subcommand.
CliParse(f) ==
    CASE f.kind = "dns" -> validate_positive_u8(f.dns_rate)
      [] f.kind = "latency" ->
            /\ validate_positive_f64(f.latency_mean)
            /\ validate_non_negative_f64(f.latency_stddev)
            /\ validate_non_negative_f64(f.latency_min)
            /\ validate_non_negative_f64(f.latency_max)
      [] f.kind = "bandwidth" -> validate_positive_u32(f.bandwidth_rate)
      [] f.kind = "jitter" ->
            /\ validate_non_negative_f64(f.jitter_amplitude)
            /\ validate_non_negative_f64(f.jitter_frequency)

\* new_dns, new_latency, new_bandwidth, new_jitter: the settings are copied
\* from the parsed arguments and the result is always Ok.
CliConstructor(f) == "Ok"

CfgNew ==
    [pc |-> "ready", current |-> ProxyConfigDefault, sent |-> 0,
     last |-> [path |-> "none", input |-> ProxyConfigDefault,
               result |-> "none", before |-> ProxyConfigDefault]]

\* One scenario item: ProxyConfig::new(fault_config.clone()).unwrap(), then
\* config_tx.send(new_config).  The unwrap panics on an Err.
CfgScenarioItem(f) ==
    /\ cfg.pc = "ready" /\ cfg.sent < MaxConfigs
    /\ LET result == ProxyConfigValidate(f) IN
       cfg' = [cfg EXCEPT
                 !.pc = IF result = "Ok" THEN "ready" ELSE "panicked",
                 !.current = IF result = "Ok" THEN f ELSE @,
                 !.sent = IF result = "Ok" THEN @ + 1 ELSE @,
                 !.last = [path |-> "new", input |-> f, result |-> result,
                           before |-> cfg.current]]
    /\ UNCHANGED notCfg

\* One `run` command: clap parses the arguments, get_run_command_proxy_config
\* calls the constructor of the subcommand, main sends the result.
CfgRunCommand(f) ==
    /\ cfg.pc = "ready" /\ cfg.sent < MaxConfigs
    /\ LET result == IF CliParse(f) THEN CliConstructor(f) ELSE "ParseError" IN
       cfg' = [cfg EXCEPT
                 !.pc = IF result = "Ok" THEN "ready" ELSE "exited",
                 !.current = IF result = "Ok" THEN f ELSE @,
                 !.sent = IF result = "Ok" THEN @ + 1 ELSE @,
                 !.last = [path |-> "cli", input |-> f, result |-> result,
                           before |-> cfg.current]]
    /\ UNCHANGED notCfg

\* The settings a scenario file can hold (dns_rate is a u8) and those a
\* command line can spell (any number).
ScenarioDnsRates == {0, 100, 101, 255}

CliDnsRates == ScenarioDnsRates \cup {256}

SmallReals == {-1, 0, 1}

LatencyInputs ==
    {LatencySettings(d, mean, stddev, min, max) :
        d \in {"normal", "uniform"}, mean \in SmallReals,
        stddev \in SmallReals, min \in {0, 2}, max \in {0, 1}}

BandwidthInputs == {BandwidthSettings(rate) : rate \in {0, 1}}

JitterInputs ==
    {JitterSettings(a, fr) : a \in SmallReals, fr \in SmallReals}

ScenarioInputs ==
    {DnsSettings(r) : r \in ScenarioDnsRates} \cup LatencyInputs
        \cup BandwidthInputs \cup JitterInputs

CliInputs ==
    {DnsSettings(r) : r \in CliDnsRates} \cup LatencyInputs
        \cup BandwidthInputs \cup JitterInputs

InitConfig ==
    /\ RestIdleExcept("cfg")
    /\ cfg = CfgNew

NextConfig ==
    \/ \E f \in ScenarioInputs : CfgScenarioItem(f)
    \/ \E f \in CliInputs : CfgRunCommand(f)

SpecConfig == InitConfig /\ [][NextConfig]_vars

(***************************************************************************)
(* BandwidthLimitedRead::new and BandwidthLimitedWrite::new                *)
(* (fault/bandwidth.rs) with BandwidthUnit::to_bytes_per_second            *)
(* (types.rs).  A usize is 64 bits wide, written as its eight bytes, the   *)
(* lowest first, so that `as u32` keeps the four lowest as the code does.  *)
(***************************************************************************)
\* The k lowest bytes of a natural number, the lowest first.
RECURSIVE Bytes(_, _)
Bytes(n, k) == IF k = 0 THEN <<>> ELSE <<n % 256>> \o Bytes(n \div 256, k - 1)

\* A usize from a natural number, and the usize 0.
Usize(n) == Bytes(n, 8)

UsizeZero == Usize(0)

\* Byte k of a * b before the carries: the sum of a[i] * b[k + 1 - i].
RECURSIVE Column(_, _, _, _)
Column(a, b, k, i) ==
    IF i > k THEN 0 ELSE a[i] * b[k + 1 - i] + Column(a, b, k, i + 1)

\* a * b on usize, byte by byte from the lowest; what would carry out of
\* byte 8 is lost, as in the wrapping multiplication of a release build.
RECURSIVE MulFrom(_, _, _, _)
MulFrom(a, b, k, carry) ==
    IF k > 8 THEN <<>>
    ELSE LET t == Column(a, b, k, 1) + carry IN
         <<t % 256>> \o MulFrom(a, b, k + 1, t \div 256)

UsizeMul(a, b) == MulFrom(a, b, 1, 0)

\* `x as u32`, written on eight bytes again: the four lowest bytes are kept
\* and the four highest are 0.
AsU32(x) == SubSeq(x, 1, 4) \o <<0, 0, 0, 0>>

BandwidthUnits == {"Bps", "KBps", "MBps", "GBps"}

\* BandwidthUnit::to_bytes_per_second.
to_bytes_per_second(unit, rate) ==
    CASE unit = "Bps" -> rate
      [] unit = "KBps" -> UsizeMul(rate, Usize(1000))
      [] unit = "MBps" -> UsizeMul(rate, Usize(1000000))
      [] unit = "GBps" -> UsizeMul(rate, Usize(1000000000))

\* BandwidthStrategy::Single and ::Dual.
StrategySingle(rate, unit) ==
    [strategy |-> "Single", rate |-> rate, unit |-> unit,
     ingress_rate |-> UsizeZero, ingress_unit |-> "Bps",
     egress_rate |-> UsizeZero, egress_unit |-> "Bps"]

StrategyDual(ingress_rate, ingress_unit, egress_rate, egress_unit) ==
    [strategy |-> "Dual", rate |-> UsizeZero, unit |-> "Bps",
     ingress_rate |-> ingress_rate, ingress_unit |-> ingress_unit,
     egress_rate |-> egress_rate, egress_unit |-> egress_unit]

\* The rate and the unit that one side of a strategy is built from: Single
\* gives the same to both, Dual its ingress pair to the read side and its
\* egress pair to the write side.
SideRate(strategy, side) ==
    CASE strategy.strategy = "Single" -> strategy.rate
      [] side = "read" -> strategy.ingress_rate
      [] OTHER -> strategy.egress_rate

SideUnit(strategy, side) ==
    CASE strategy.strategy = "Single" -> strategy.unit
      [] side = "read" -> strategy.ingress_unit
      [] OTHER -> strategy.egress_unit

\* The body of one arm of `new`: Err(inner) for a rate of 0 bytes/second and
\* for one whose `as u32` is 0, else the quota NonZeroU32::new(rate_bps as
\* u32) and max_read_size / max_write_size = rate_bps.
LimiterOfRate(rate, unit) ==
    LET rate_bps == to_bytes_per_second(unit, rate) IN
    IF rate_bps = UsizeZero THEN [built |-> FALSE, quota |-> UsizeZero,
                                  max_size |-> UsizeZero]
    ELSE IF AsU32(rate_bps) = UsizeZero
         THEN [built |-> FALSE, quota |-> UsizeZero, max_size |-> UsizeZero]
         ELSE [built |-> TRUE, quota |-> AsU32(rate_bps),
               max_size |-> rate_bps]

BandwidthLimitedReadNew(strategy) ==
    LimiterOfRate(SideRate(strategy, "read"), SideUnit(strategy, "read"))

BandwidthLimitedWriteNew(strategy) ==
    LimiterOfRate(SideRate(strategy, "write"), SideUnit(strategy, "write"))

LimNew(strategy) ==
    [pc |-> "configured", strategy |-> strategy, side |-> "none",
     result |-> [built |-> FALSE, quota |-> UsizeZero, max_size |-> UsizeZero]]

\* BandwidthLimitedRead::new on the read half of a stream.
LimBuildRead ==
    /\ lim.pc = "configured"
    /\ lim' = [lim EXCEPT !.pc = "done", !.side = "read",
                          !.result = BandwidthLimitedReadNew(lim.strategy)]
    /\ UNCHANGED notLim

\* BandwidthLimitedWrite::new on the write half of a stream.
LimBuildWrite ==
    /\ lim.pc = "configured"
    /\ lim' = [lim EXCEPT !.pc = "done", !.side = "write",
                          !.result = BandwidthLimitedWriteNew(lim.strategy)]
    /\ UNCHANGED notLim

\* Rates around 2^32 / 1000 and around 2^32: 4294967 KBps is 4294967000
\* bytes/second, below 2^32 = 4294967296, and 4294968 KBps is above it.
LimRates ==
    {Usize(0), Usize(1), Usize(5), Usize(4294967), Usize(4294968),
     <<255, 255, 255, 255, 0, 0, 0, 0>>, <<0, 0, 0, 0, 1, 0, 0, 0>>,
     <<1, 0, 0, 0, 1, 0, 0, 0>>}

DualRates == {Usize(0), Usize(5), Usize(4294968)}

LimStrategies ==
    {StrategySingle(rate, unit) : rate \in LimRates, unit \in BandwidthUnits}
      \cup {StrategyDual(ir, iu, er, eu) :
               ir \in DualRates, er \in DualRates,
               iu \in {"Bps", "KBps"}, eu \in {"Bps", "KBps"}}

InitLimiter ==
    /\ RestIdleExcept("lim")
    /\ lim \in {LimNew(strategy) : strategy \in LimStrategies}

NextLimiter ==
    \/ LimBuildRead
    \/ LimBuildWrite

SpecLimiter == InitLimiter /\ [][NextLimiter]_vars

(***************************************************************************)
(* handle_connect (proxy/tunnel.rs) with the DNS plugin as the only plugin *)
(* (plugin/builtin/dns.rs, fault/dns.rs), next to the same CONNECT taken   *)
(* in passthrough: both tunnels meet the same lookup, upgrade, connect and *)
(* copy outcomes.                                                          *)
(***************************************************************************)
\* A stream of the tunnel: the socket it ends at and the wrappers around it,
\* the innermost first.
RawStream(end) == [end |-> end, layers |-> <<>>]

\* An injector that wraps the stream it is given.
FaultyResolverInjectWraps(stream) ==
    [stream EXCEPT !.layers = Append(@, "dns")]

\* FaultyResolverInjector::inject: the stream is returned as it came.
FaultyResolverInject(stream) == stream

\* DnsFaultPlugin::inject_tunnel_faults: injector.inject on the client
\* stream, then on the server stream; the result is Ok.
DnsInjectTunnelFaults(streams) ==
    [client |-> FaultyResolverInject(streams.client),
     server |-> FaultyResolverInject(streams.server)]

\* DnsFaultPlugin::process_connect_request: Ok(req).
DnsProcessConnectRequest(req) == req

\* The plugin list load_builtin_plugins builds from DnsSettings.
DnsPlugin(rate, direction) ==
    [kind |-> "dns", direction |-> direction, dns_rate |-> rate]

TunnelNew(passthrough, host) ==
    [pc |-> "connect_plugins", passthrough |-> passthrough,
     target_host |-> host,
     streams |-> [client |-> RawStream("none"), server |-> RawStream("none")],
     lookups |-> <<>>, events |-> <<>>, to_server |-> 0, to_client |-> 0]

\* `if !passthrough { process_connect_plugins(...) }`.
TunnelProcessConnect(t, list) ==
    [t EXCEPT !.target_host =
                  IF t.passthrough THEN @ ELSE DnsProcessConnectRequest(@),
              !.pc = "resolving"]

\* resolve_addresses: a resolver built from ResolverConfig::default() looks
\* the host up; the unwrap panics the task on a failure, and on_resolved
\* follows a success.
TunnelResolve(t, ok) ==
    [t EXCEPT !.lookups = Append(@, [by |-> "default", host |-> t.target_host]),
              !.events = IF ok THEN @ \o ResolvedEvents ELSE @,
              !.pc = IF ok THEN "upgrading" ELSE "panicked"]

\* hyper::upgrade::on(req).
TunnelUpgrade(t, ok) ==
    [t EXCEPT !.pc = IF ok THEN "connecting" ELSE "upgrade_failed"]

\* TcpStream::connect(addr): on Ok on_started is called and the two streams
\* are boxed; on Err the plugins are notified under `!passthrough`, and the
\* DNS plugin's process_connect_response is Ok(()).
TunnelConnect(t, ok) ==
    IF ok
    THEN [t EXCEPT !.events = @ \o ConnectedEvents,
                   !.streams = [client |-> RawStream("client"),
                                server |-> RawStream("server")],
                   !.pc = "injecting"]
    ELSE [t EXCEPT !.pc = "connect_failed"]

\* `if !passthrough { for plugin in plugins_lock.iter() { ... } }` over a
\* list that holds the DNS plugin only.
TunnelInject(t, list) ==
    IF t.passthrough THEN [t EXCEPT !.pc = "streaming"]
    ELSE [t EXCEPT !.streams = DnsInjectTunnelFaults(@),
                   !.events = @ \o InjectTunnelFaultsEvents(list[1]),
                   !.pc = "streaming"]

\* copy_bidirectional moves n bytes one way: a stream without a wrapper
\* hands over what it is given.
TunnelCopy(t, to, n) ==
    IF to = "server" THEN [t EXCEPT !.to_server = @ + n]
    ELSE [t EXCEPT !.to_client = @ + n]

\* copy_bidirectional returns: on_response and on_completed in either arm.
TunnelCopyDone(t, ok) ==
    [t EXCEPT !.events = @ \o (IF ok THEN CopyOkEvents ELSE CopyErrEvents),
              !.pc = IF ok THEN "copied" ELSE "copy_failed"]

TdNew(rate, direction, host) ==
    [pc |-> "run", plugins |-> <<DnsPlugin(rate, direction)>>,
     faulted |-> TunnelNew(FALSE, host), plain |-> TunnelNew(TRUE, host)]

\* One step of handle_connect, taken by both tunnels with the same outcome.
TdBoth(pc, step(_)) ==
    /\ td.pc = "run"
    /\ td.faulted.pc = pc /\ td.plain.pc = pc
    /\ td' = [td EXCEPT !.faulted = step(@), !.plain = step(@)]
    /\ UNCHANGED notTd

TdProcessConnect ==
    LET step(t) == TunnelProcessConnect(t, td.plugins) IN
    TdBoth("connect_plugins", step)

TdResolve(ok) ==
    LET step(t) == TunnelResolve(t, ok) IN TdBoth("resolving", step)

TdUpgrade(ok) ==
    LET step(t) == TunnelUpgrade(t, ok) IN TdBoth("upgrading", step)

TdConnect(ok) ==
    LET step(t) == TunnelConnect(t, ok) IN TdBoth("connecting", step)

TdInject ==
    LET step(t) == TunnelInject(t, td.plugins) IN TdBoth("injecting", step)

TdCopy(to, n) ==
    /\ td.faulted.to_server + td.faulted.to_client + n <= MaxBytes
    /\ LET step(t) == TunnelCopy(t, to, n) IN TdBoth("streaming", step)

TdCopyDone(ok) ==
    LET step(t) == TunnelCopyDone(t, ok) IN TdBoth("streaming", step)

InitTunnelDns ==
    /\ RestIdleExcept("td")
    /\ td \in {TdNew(rate, direction, host) :
                  rate \in DnsRates, direction \in {"ingress", "egress", "both"},
                  host \in Hosts}

NextTunnelDns ==
    \/ TdProcessConnect
    \/ \E ok \in BOOLEAN : TdResolve(ok)
    \/ \E ok \in BOOLEAN : TdUpgrade(ok)
    \/ \E ok \in BOOLEAN : TdConnect(ok)
    \/ TdInject
    \/ \E to \in {"server", "client"}, n \in 1..MaxBytes : TdCopy(to, n)
    \/ \E ok \in BOOLEAN : TdCopyDone(ok)

SpecTunnelDns == InitTunnelDns /\ [][NextTunnelDns]_vars

(***************************************************************************)
(* Properties.                                                             *)
(***************************************************************************)
TaskIds == 1..Len(tasks)

Terminal(type) == type \in {"Completed", "Error"}

\* C1: for a passthrough request no plugin operation is invoked (forward:
\* prepare_client, process_request, process_response; CONNECT:
\* process_connect_request, inject_tunnel_faults), and the tunnel copies on
\* the unwrapped streams.
C1_PassthroughInvokesNoPlugin ==
    \A i \in TaskIds :
        tasks[i].passthrough => tasks[i].invoked = <<>> /\ ~tasks[i].wrapped

\* A passthrough forward request and a passthrough tunnel have both run to
\* their end while the shared list held a plugin.
C1_Witness ==
    /\ plugins # <<>>
    /\ \E i \in TaskIds :
         tasks[i].passthrough /\ tasks[i].mode = "forward" /\ tasks[i].pc = "done"
    /\ \E i \in TaskIds :
         tasks[i].passthrough /\ tasks[i].mode = "connect" /\ tasks[i].pc = "copied"

\* C2: once the watcher has processed a configuration change, the shared
\* plugin list is exactly the list built from the new configuration.
C2_PluginListIsLatestConfig ==
    (watcher.pc = "wait" /\ watcher.seen > 0)
        => plugins = LoadBuiltinPlugins(watcher.new_config)

\* C3: a faulted forward request reads one and the same plugin list in its
\* prepare_client, process_request and process_response phases.
C3_OnePluginListPerRequest ==
    \A i \in TaskIds :
        (tasks[i].mode = "forward" /\ Faulted(tasks[i]))
            => \A j, k \in 1..Len(tasks[i].used) :
                   tasks[i].used[j] = tasks[i].used[k]

\* C4: the runner issues an item's request only once the watcher has taken
\* the configuration written for the item and installed its plugin list.
C4_RunnerWaitsForWatcher ==
    [][(runner.pc = "request" /\ runner'.pc = "await")
          => (watcher.pc = "wait" /\ watcher.seen = config_tx.version)]_vars

\* C5: for every TaskId, a terminal event (Completed or Error) is the last
\* event of the task: at most one is sent, and none follows it.
C5_AtMostOneTerminalEvent ==
    \A i \in TaskIds :
        \A k \in 1..Len(TypesOf(i)) :
            Terminal(TypesOf(i)[k]) => k = Len(TypesOf(i))

\* A faulted tunnel whose wrappers sent FaultApplied and whose copy failed has
\* sent its terminal event.
C5_Witness ==
    \E i \in TaskIds :
        /\ tasks[i].mode = "connect" /\ Faulted(tasks[i])
        /\ tasks[i].pc = "copy_failed"
        /\ tasks[i].applied > 0
        /\ Terminal(TypesOf(i)[Len(TypesOf(i))])

\* C6: a faulted tunnel that failed (resolution, upgrade, connect or copy) has
\* sent Error and not Completed; Completed is sent only after a successful
\* copy.
C6_FailedTunnelEmitsError ==
    \A i \in TaskIds :
        (tasks[i].mode = "connect" /\ Faulted(tasks[i])) =>
            /\ tasks[i].pc \in {"panicked", "upgrade_failed", "connect_failed", "copy_failed"}
                  => /\ "Error" \in Range(TypesOf(i))
                     /\ ~("Completed" \in Range(TypesOf(i)))
            /\ "Completed" \in Range(TypesOf(i)) => tasks[i].pc = "copied"

\* The place of an event in (Started, WithFault*, IpResolved?, FaultApplied*,
\* TTFB?, ResponseReceived?, Completed|Error).
Rank(type) ==
    CASE type = "Started" -> 1
      [] type = "WithFault" -> 2
      [] type = "IpResolved" -> 3
      [] type = "FaultApplied" -> 4
      [] type = "TTFB" -> 5
      [] type = "ResponseReceived" -> 6
      [] type \in {"Completed", "Error"} -> 7

PrefixOfLifecycle(s) ==
    /\ s # <<>> => s[1] = "Started"
    /\ \A k \in 1..(Len(s) - 1) : Rank(s[k]) <= Rank(s[k + 1])
    /\ \A j, k \in 1..Len(s) :
         (j # k /\ Rank(s[j]) = Rank(s[k])) => s[j] \in {"WithFault", "FaultApplied"}

\* C7: the events of a faulted task are a prefix of (Started, WithFault*,
\* IpResolved?, FaultApplied*, TTFB?, ResponseReceived?, Completed|Error).
C7_EventsFollowLifecycle ==
    \A i \in TaskIds : Faulted(tasks[i]) => PrefixOfLifecycle(TypesOf(i))

\* C8: nothing on the bus carries the id of a passthrough handle, whatever
\* was called on it, and a fault handle has sent one event per call, of the
\* variant of the method called, in the order of the calls.
C8_PassthroughDiscardsFaultSends ==
    \A h \in 1..Len(handles) :
        IF handles[h].kind = "passthrough"
        THEN TypesOf(handles[h].id) = <<>>
        ELSE TypesOf(handles[h].id) =
                 [k \in 1..Len(handles[h].calls) |-> EventOfMethod(handles[h].calls[k])]

\* Both kinds of handle exist and have been called.
C8_Witness ==
    /\ \E h \in 1..Len(handles) :
         handles[h].kind = "passthrough" /\ Len(handles[h].calls) >= 2
    /\ \E h \in 1..Len(handles) :
         handles[h].kind = "fault" /\ Len(handles[h].calls) >= 1

\* C9: every poll of a bandwidth wrapper moves at most min(requested, rate)
\* bytes and at most the cells it reserved, so that at most rate plus one
\* bucket of bytes moves in any one-second window; for reads and for writes.
C9_PollMovesAtMostReserved ==
    bw.kind \in {"read", "write"} =>
        /\ bw.moved <= Min(bw.requested, bw.max_size)
        /\ bw.moved <= bw.reserved
        /\ Sum(bw.hist) <= bw.max_size + bw.max_size

\* C10: a bandwidth wrapper returns Pending only with a wake-up arranged: the
\* refill timer armed with the task's waker, or the inner stream's waker.
C10_PendingHasWakeup ==
    (bw.kind \in {"read", "write"} /\ bw.last = "pending")
        => (bw.woken \/ bw.timer = "armed" \/ bw.inner_waker)

\* C11: in a latency wrapper, per-poll or global, no poll reaches the
\* underlying stream while a sampled delay's timer is armed and has not
\* expired, however often the wrapper is polled in the meantime.
C11_NoInnerPollWhileArmed ==
    lat.kind \in {"read", "write"} => ~lat.early

\* The flows a direction names: Ingress is upstream toward client, Egress is
\* client toward upstream.
DirectionFlows(direction) ==
    (IF is_ingress(direction) THEN {"ingress"} ELSE {})
    \cup (IF is_egress(direction) THEN {"egress"} ELSE {})

\* C12: an injector applied to a tunnel perturbs only the bytes of the flows
\* its direction names, whichever stream it wraps (Ingress: upstream toward
\* client only; Egress: client toward upstream only), and with Both the
\* bytes of both flows once both have moved through a wrapped stream.
C12_OnlyDirectionFlowsPerturbed ==
    flow.phase = "copying" =>
        /\ flow.perturbed \subseteq DirectionFlows(flow.direction)
        /\ (flow.direction = "both" /\ flow.wrapped # {}
               /\ flow.up = MaxFlow /\ flow.down = MaxFlow)
              => flow.perturbed = {"ingress", "egress"}

\* The operations of the forward pipeline, in order.
PhaseRank(op) ==
    CASE op = "prepare_client" -> 1
      [] op = "process_request" -> 2
      [] op = "process_response" -> 3
      [] OTHER -> 0

\* C13: when a plugin fails in a faulted forward request the pipeline
\* stops (the failing plugin is the last one invoked; the upstream request
\* is not executed after a failure in the prepare or request phase), and
\* the client gets an HTTP error response (500 or 502), not a dropped
\* connection.
C13_PluginFailureGivesErrorResponse ==
    \A i \in TaskIds :
        (tasks[i].mode = "forward" /\ tasks[i].pc = "plugin_failed") =>
            /\ tasks[i].invoked # <<>>
            /\ \A k \in 1..(Len(tasks[i].invoked) - 1) :
                   PhaseRank(tasks[i].invoked[k].op)
                       <= PhaseRank(tasks[i].invoked[k + 1].op)
            /\ tasks[i].reply = "error_response"

\* C14: after the shutdown signal is sent the accept loop eventually leaves
\* its loop, no connection is accepted after the signal, and the handlers
\* already spawned are left running by the signal.
C14_ShutdownStopsAccepting ==
    /\ (listener.pc = "select" /\ listener.signal) ~> (listener.pc = "stopped")
    /\ [](listener.pc # "none" => listener.accepted_after = 0)
    /\ [][(listener.pc = "select" /\ listener'.pc = "stopped")
            => listener'.handlers = listener.handlers]_vars

\* Every predicate the expectation provides holds of the response.
AllProvidedHold(r, metrics) ==
    /\ r.status.some => r.status.v = metrics.code
    /\ r.response_time_under.some => metrics.total_time <= r.response_time_under.v

\* C15: for an item whose request produced a response and that carries an
\* expectation (a status only, a response-time bound only, both, or neither),
\* the decision is Success iff every provided predicate holds, and Failure
\* otherwise.
C15_DecisionIffAllProvidedHold ==
    \A n \in 1..(IF scn.pc = "none" THEN 0 ELSE Len(scn.runs)) :
        LET run == scn.runs[n]
        IN  (run.requested /\ run.resp.r = "ok" /\ run.item.expect.some) =>
                /\ run.outcome = "report"
                /\ run.decision = IF AllProvidedHold(run.item.expect, run.resp)
                                  THEN "Success" ELSE "Failure"

\* C16: an error raised while an item is executed (an unparsable upstream
\* entry, an invalid fault configuration, a failed request) is recorded in
\* the errors of the report item that execute_item returns.
C16_ItemErrorsAreRecorded ==
    \A n \in 1..(IF scn.pc = "none" THEN 0 ELSE Len(scn.runs)) :
        LET run == scn.runs[n]
        IN  (\/ UpstreamToAddr(run.item.upstream).r # "ok"
             \/ ProxyConfigNew(FaultBuild(run.item.fault)) # "ok"
             \/ run.resp.r = "err")
                => (run.outcome = "report" /\ run.errors # <<>>)

\* C17: build_item_list expands an item with a Repeat strategy of count N
\* and step s into exactly N items, in order, the k-th with the latency mean
\* mean + (k-1)*s and everything else as in the source; an item without a
\* strategy expands to the source alone.
C17_RepeatExpandsToCountItems ==
    scn.pc \in {"built", "panicked"} =>
        IF scn.source.strategy.some
        THEN /\ BuildItemList(scn.source).r = "ok"
             /\ Len(scn.items) = scn.source.strategy.count
             /\ \A k \in 1..Len(scn.items) :
                    scn.items[k] =
                        IF scn.source.fault.kind = "latency" /\ scn.source.fault.mean.some
                        THEN [scn.source EXCEPT !.fault.mean =
                                 Some(scn.source.fault.mean.v
                                      + (k - 1) * scn.source.strategy.step)]
                        ELSE scn.source
        ELSE scn.items = <<scn.source>>

\* C18: for a passthrough forward request the upstream receives the
\* client's method, header fields and body unchanged, and the client
\* receives the upstream's status, every value of every header field and
\* the body unchanged (the fields of the model are end-to-end fields).
C18_PassthroughIsTransparent ==
    /\ http.pc \in {"built", "responded", "replied", "failed"}
          => http.upstream_req = http.request
    /\ http.pc = "replied" => http.reply = http.response

\* C19: with the DNS fault installed, every lookup either fails with the
\* simulated error without the inner resolver being consulted, or is
\* delegated to it; with rate 100 every lookup fails, with rate 0 none is
\* failed by the injector; and each lookup has sent exactly one Dns event
\* whose triggered flag tells whether the lookup was failed.
C19_DnsLookupFailsOrDelegates ==
    dns.pc = "installed" =>
        /\ Len(dns.flags) = Len(dns.lookups)
        /\ Len(EventsOf(FirstTaskId)) = Len(dns.lookups)
        /\ \A k \in 1..Len(dns.lookups) :
               /\ dns.lookups[k].outcome \in {"failed", "delegated"}
               /\ dns.lookups[k].outcome = "failed"
                     <=> dns.lookups[k].result = "Simulated DNS resolution failure"
               /\ dns.lookups[k].outcome = "failed" <=> ~dns.lookups[k].inner_called
               /\ k <= Len(dns.flags)
                     => dns.flags[k] = (dns.lookups[k].outcome = "failed")
               /\ dns.rate = 100 => dns.lookups[k].outcome = "failed"
               /\ dns.rate = 0 => dns.lookups[k].outcome = "delegated"

\* A resolver with a rate strictly between 0 and 100 has failed one lookup
\* and delegated another, one of them with an error of the inner resolver.
C19_Witness ==
    /\ dns.pc = "installed"
    /\ dns.rate = 50
    /\ \E j, k \in 1..Len(dns.lookups) :
          /\ dns.lookups[j].outcome = "failed"
          /\ dns.lookups[k].outcome = "delegated"
          /\ dns.lookups[k].result = "lookup error"

\* The producer is never made to wait and every call of a FaultTaskEvent
\* method has returned Ok, with no subscriber, a full buffer or a lagging
\* subscriber alike.
EmitNeverBlocksNorFails ==
    /\ \A k \in 1..Len(sub.results) : sub.results[k] = "Ok"
    /\ Len(sub.results) = Len(bus)
    /\ (sub.senders /\ Len(bus) < MaxEmits) => ENABLED (\E m \in Methods : SubEmit(m))

\* What a subscriber was told it missed is what it lost, and it lost only
\* positions older than every position the buffer still held; past them it
\* receives every position in order.
LagLosesOnlyOldest ==
    /\ \A k \in 1..Len(sub.told) :
          /\ sub.told[k].count >= 1
          /\ sub.told[k].count = sub.told[k].last - sub.told[k].first + 1
          /\ sub.told[k].last = sub.told[k].tail - ChannelCapacity
    /\ Len(sub.received) + Sum([k \in 1..Len(sub.told) |-> sub.told[k].count])
          = sub.next
    /\ \A p \in 1..sub.next :
          \/ p \in Range(sub.received)
          \/ \E k \in 1..Len(sub.told) : sub.told[k].first <= p /\ p <= sub.told[k].last
    /\ \A j, k \in 1..Len(sub.received) : j < k => sub.received[j] < sub.received[k]
    /\ (sub.pc = "recv" /\ sub.next < Len(sub.chan)) => ENABLED SubRecvBus

\* C20 (as stated): emitting never blocks or fails the producer; a lagging
\* subscriber loses only the oldest events, is told how many it missed and
\* keeps receiving later events; and it leaves its loop only when the event
\* channel is closed.
C20_EmitNeverFailsSubscriberLeavesOnBusClosed ==
    sub.pc # "none" =>
        /\ EmitNeverBlocksNorFails
        /\ LagLosesOnlyOldest
        /\ sub.pc = "left" => ~sub.senders

\* C20 (amended): as above, but the subscriber leaves its loop only when a
\* channel it receives from is closed and drained: the event channel, or,
\* for handle_scenario_events, the scenario channel.
C20_EmitNeverFailsSubscriberLeavesOnAChannelClosed ==
    sub.pc # "none" =>
        /\ EmitNeverBlocksNorFails
        /\ LagLosesOnlyOldest
        /\ sub.pc = "left" =>
              \/ /\ sub.left_on = "bus"
                 /\ ~sub.senders
                 /\ sub.next = Len(sub.chan)
              \/ /\ sub.left_on = "scenario"
                 /\ sub.kind = "scenario"
                 /\ ~sub.scenario_open
                 /\ sub.scenario_seen = sub.scenario_sent

\* A subscriber that lagged behind a full buffer, was told so, received a
\* later event, and left on the closing of the scenario channel with the
\* event channel still open.
C20_Witness ==
    /\ sub.pc = "left"
    /\ sub.left_on = "scenario"
    /\ sub.told # <<>>
    /\ \E k \in 1..Len(sub.received) : sub.received[k] > sub.told[1].last
    /\ Len(sub.chan) > ChannelCapacity
    /\ sub.senders

\* C21: TaskIds are unique and strictly increasing in allocation order,
\* starting at 1, whatever the interleaving of new_fault_event and
\* new_passthrough_event: the k-th handle allocated, of either kind, has id k.
C21_TaskIdsUniqueIncreasingFromOne ==
    /\ \A k \in 1..Len(handles) : handles[k].id = k
    /\ \A j, k \in 1..Len(handles) : j < k => handles[j].id < handles[k].id
    /\ counter = Len(handles) + 1

\* Handles of both kinds were allocated, a passthrough one before a fault one.
C21_Witness ==
    /\ Len(handles) >= 2
    /\ handles[1].kind = "passthrough"
    /\ handles[2].kind = "fault"

\* C22: a save to a path whose extension is neither .json nor .yaml/.yml
\* returns an error (a ReportError, when the path could be opened at all) and
\* leaves the file at the path as it was (none created, none truncated); a
\* successful save to a supported path leaves the
\* report there in the format of the extension.
C22_UnsupportedExtensionLeavesFileAlone ==
    rep.pc = "returned" =>
        /\ FormatOfPath(rep.path) = "unsupported"
              => /\ rep.result \in {"ReportError", "IoError"}
                 /\ rep.file = rep.before
        /\ (FormatOfPath(rep.path) # "unsupported" /\ rep.result = "Ok")
              => rep.file = Written(FormatOfPath(rep.path), rep.report)

\* The port a text stands for: the one written, or the default of its
\* scheme, 443 for https and 80 otherwise.
NormalPort(t) ==
    IF t.port # NoPort THEN t.port ELSE IF t.scheme = "https" THEN 443 ELSE 80

\* C23: a request is faulted iff its upstream, as host:port with the port
\* defaulted from the scheme, is in the allow-list, whose entries, written
\* as a bare host, as host:port or as a URL, stand for host:port in the same
\* way; and passthrough otherwise, so always with the empty allow-list.
\* Installing the allow-list does not fail on such an entry.
C23_FaultedIffNormalisedUpstreamAllowed ==
    /\ sel.pc # "panicked"
    /\ sel.pc = "decided" =>
          LET current == IF sel.installed THEN sel.entries ELSE {}
          IN ~sel.passthrough
               <=> \E e \in current :
                      /\ e.host = sel.request.host
                      /\ NormalPort(e) = NormalPort(sel.request)

\* C24: a configuration change (a send on the watch channel, the watcher
\* storing the configuration or extending the plugin list) leaves every
\* established tunnel as it is, neither ended nor altered; every poll of a
\* tunnel's wrappers works with the settings read when the streams were
\* injected; and a step that consults the plugins reads the list as it is
\* when the step is taken.
C24_ConfigChangeLeavesTunnelsAlone ==
    /\ [](\A i \in 1..Len(tasks) :
             \A k \in 1..Len(tasks[i].polled) :
                 tasks[i].polled[k].settings = tasks[i].used[1])
    /\ [][\A i \in 1..Len(tasks) :
             (/\ tasks[i].mode = "connect"
              /\ tasks[i].pc = "streaming"
              /\ \/ plugins' # plugins
                 \/ shared_config' # shared_config
                 \/ config_tx' # config_tx)
             => tasks'[i] = tasks[i]]_vars
    /\ [][\A i \in 1..Len(tasks) :
             tasks'[i].used # tasks[i].used
             => tasks'[i].used = Append(tasks[i].used, plugins)]_vars

\* A tunnel whose wrappers were polled after the shared plugin list had
\* changed since the streams were injected.
C24_Witness ==
    \E i \in 1..Len(tasks) :
        /\ tasks[i].mode = "connect"
        /\ tasks[i].pc = "streaming"
        /\ \E k \in 1..Len(tasks[i].polled) :
              tasks[i].polled[k].shared # tasks[i].polled[k].settings

\* C25: when the request of an item that declares an expectation fails, the
\* report item has exactly one error and its decision is Failure.
C25_FailedRequestIsOneErrorAndFailure ==
    scn.pc # "none" =>
        \A k \in 1..Len(scn.runs) :
            (/\ scn.runs[k].requested
             /\ scn.runs[k].resp.r = "err"
             /\ scn.runs[k].item.expect.some)
            => /\ scn.runs[k].outcome = "report"
               /\ Len(scn.runs[k].errors) = 1
               /\ scn.runs[k].decision = "Failure"

\* C26: in global mode a latency wrapper that was polled has sampled one
\* delay and sent one Latency FaultApplied event, at its first poll, and every
\* later poll went to the underlying stream; in non-global mode it has
\* sampled a delay, and sent an event, at every poll that found no timer
\* armed.
C26_GlobalSamplesOncePerPollOtherwise ==
    lat.kind \in {"read", "write"} =>
        /\ Len(lat.events) = lat.applied_count
        /\ (lat.global /\ lat.polls >= 1) =>
              /\ Len(lat.events) = 1
              /\ lat.inner_polls >= lat.polls - 1
              /\ lat.polls >= 2 => lat.last = "inner"
        /\ ~lat.global => Len(lat.events) = lat.unarmed

\* A global-mode wrapper polled three times and more.
C26_Witness ==
    /\ lat.kind \in {"read", "write"}
    /\ lat.global
    /\ lat.polls >= 3
    /\ lat.inner_polls >= 2
    /\ Len(lat.events) = 1

\* C27: a poll of a jitter wrapper that decided to inject has armed the
\* timer and has not polled the underlying stream; a poll made while the
\* timer was armed and unexpired has not polled it either; a poll that
\* decided not to inject has polled it.
C27_JitterPollArmsWithoutInnerPoll ==
    (jit.pc = "wrapped" /\ jit.last.op # "none") =>
        LET slp == IF jit.last.op = "read" THEN jit.read_sleep ELSE jit.write_sleep
        IN /\ jit.last.decision = "inject" => (slp.armed /\ ~jit.last.inner)
           /\ jit.last.unexpired_before => ~jit.last.inner
           /\ jit.last.decision = "skip" => jit.last.inner

\* C28: a poll of a packet-loss wrapper that decided to drop has not
\* polled the underlying stream and has moved no byte through it, and has
\* returned ready with zero bytes (filled, for a read; written, for a
\* write); a poll that decided not to drop was handed to the stream and has
\* returned what the stream returned.
C28_DropTouchesNothing ==
    (pl.pc = "wrapped" /\ pl.polls > 0) =>
        /\ pl.last.should_drop =>
              /\ ~pl.last.inner
              /\ pl.moved = pl.last.moved_before
              /\ pl.last.result = [r |-> "ready", n |-> 0]
        /\ ~pl.last.should_drop =>
              /\ pl.last.inner
              /\ pl.last.result = pl.last.outcome
              /\ pl.moved = pl.last.moved_before + pl.last.outcome.n
        /\ pl.inner_polls + pl.events = pl.polls

\* A wrapper that dropped a poll after the stream had moved bytes.
C28_Witness ==
    /\ pl.pc = "wrapped"
    /\ pl.last.should_drop
    /\ pl.last.requested > 0
    /\ pl.moved > 0

\* C29: the chain of a wrapper starts in Good, has advanced once for every
\* poll, dropped or not, is in one of the five states, has with the default
\* matrix stayed or moved to an adjacent state by a transition of non-zero
\* probability, and a poll that landed in Excellent has not dropped.
C29_ChainAdvancesOncePerPoll ==
    pl.pc = "wrapped" =>
        /\ pl.state \in MultiStates
        /\ pl.polls = 0 => pl.state = "Good"
        /\ pl.steps = pl.polls
        /\ pl.polls > 0 =>
              /\ pl.last.to = pl.state
              /\ to_index(pl.last.to) - to_index(pl.last.from) \in {-1, 0, 1}
              /\ TransitionMatrix[to_index(pl.last.from) + 1][to_index(pl.last.to) + 1] > 0
              /\ pl.last.to = "Excellent" => ~pl.last.should_drop

\* A chain that reached Bad and dropped there, and one step later is in Poor.
C29_Witness ==
    /\ pl.pc = "wrapped"
    /\ pl.last.from = "Bad"
    /\ pl.last.to = "Poor"
    /\ pl.last.should_drop

\* C30: the bps values of the Bandwidth FaultApplied events of a bandwidth
\* wrapper sum to the bytes moved through it; a poll that moved data has
\* sent one event, carrying the bytes it moved, and a poll that returned
\* Pending or an error has sent none.
C30_BandwidthEventsSumToBytesMoved ==
    bw.kind \in {"read", "write"} =>
        /\ bw.bps_sum = MaxBytes - bw.left
        /\ bw.events = bw.moved_polls
        /\ bw.last = "ready" => bw.last_events = <<bw.moved>>
        /\ bw.last \in {"pending", "err"} => bw.last_events = <<>>

\* A wrapper whose last poll moved fewer bytes than it had reserved cells
\* for, after an earlier poll that moved data.
C30_Witness ==
    /\ bw.kind \in {"read", "write"}
    /\ bw.last = "ready"
    /\ bw.moved < bw.reserved
    /\ bw.events >= 2

\* The operations of Forward::execute, in the order of its three loops.
ForwardOps == <<"prepare_client", "process_request", "process_response">>

\* One call of op per plugin of the list, first to last, the k-th on the
\* value the k - 1 before it have transformed.
InListOrder(op, list) ==
    [k \in 1..Len(list) |->
        [op |-> op, plugin |-> list[k], input |-> [j \in 1..(k - 1) |-> list[j]]]]

\* The calls of the first n phases of a task, each phase over the list it
\* read under its own lock.
RECURSIVE PhaseCalls(_, _)
PhaseCalls(t, n) ==
    IF n = 0 THEN <<>>
    ELSE PhaseCalls(t, n - 1) \o InListOrder(ForwardOps[n], t.used[n])

\* The phases a forward task has completed at each position of the handler.
PhasesDone(pc) ==
    CASE pc = "prepare" -> 0
      [] pc = "request" -> 1
      [] pc \in {"execute", "response", "failed"} -> 2
      [] pc = "done" -> 3

\* C31: for a faulted forward request every prepare_client call precedes the
\* building of the client, every process_request call precedes the upstream
\* request, every process_response call follows the upstream response and
\* precedes the reply to the client; in a phase the plugins are called in list
\* order, each on the output of the one before.
C31_ForwardPhasesOrdered ==
    \A i \in 1..Len(tasks) :
        LET t == tasks[i] IN
        (t.mode = "forward" /\ ~t.passthrough) =>
            /\ t.pc # "plugin_failed" =>
                   /\ Len(t.used) = PhasesDone(t.pc)
                   /\ t.invoked = PhaseCalls(t, PhasesDone(t.pc))
            /\ t.pc = "plugin_failed" =>
                   /\ Len(t.used) \in 1..3
                   /\ \E k \in 1..Len(t.used[Len(t.used)]) :
                          t.invoked = PhaseCalls(t, Len(t.used) - 1)
                              \o SubSeq(InListOrder(ForwardOps[Len(t.used)],
                                                    t.used[Len(t.used)]), 1, k)
            /\ t.reply = "response" => t.pc = "done"

\* A faulted forward request answered after three phases over a list of two
\* plugins.
C31_Witness ==
    \E i \in 1..Len(tasks) :
        /\ tasks[i].mode = "forward" /\ ~tasks[i].passthrough
        /\ tasks[i].reply = "response"
        /\ Len(tasks[i].invoked) >= 6
        /\ tasks[i].invoked[2].input # <<>>

\* What a lifecycle holds of a task: whether its computed fault is there and
\* how many applications.
HeldOf(lc, id) ==
    LET es == SelectSeq(lc.faults, LAMBDA e : e.id = id)
    IN  IF es = <<>> THEN [computed |-> FALSE, applied |-> 0]
        ELSE [computed |-> es[1].computed, applied |-> es[1].applied]

\* What the proxy sent for the task of item k.
SentOf(j, k) ==
    LET es == ProxyEventsOfItem(j, k)
    IN  [computed |-> \E n \in 1..Len(es) : es[n].type = "FaultComputed",
         applied |-> Len(SelectSeq(es, LAMBDA e : e.type = "FaultApplied"))]

\* C32: the lifecycle queued for an item holds the fault events of the
\* item's own task and no other, all of those the proxy sent before the item
\* terminated.
C32_LifecycleHoldsItsOwnTaskEvents ==
    \A q \in 1..Len(join.queue) :
        LET lc == join.queue[q] IN
        /\ \A n \in 1..Len(lc.faults) : lc.faults[n].id = TaskIdOfItem(lc.url)
        /\ HeldOf(lc, TaskIdOfItem(lc.url)) = SentOf(join, lc.url)

\* C33: the TTFB reported for an item whose body had a first chunk is the
\* time from the start of the request to that chunk, whatever time the rest
\* of the body took, and is at most total_time.
C33_TtfbIsTimeToFirstChunk ==
    (tim.pc = "done" /\ tim.stream.first_byte_time.some) =>
        /\ tim.ttfb = tim.stream.first_byte_time.v - tim.ttfb_start
        /\ tim.ttfb <= tim.total_time

\* C34: in forward mode the bandwidth plugin throttles a request body of
\* bytes iff its direction includes egress, and the response body iff its
\* direction includes ingress.
C34_ForwardBandwidthFollowsDirection ==
    /\ (bwp.pc \in {"execute", "response", "done"} /\ bwp.body = "bytes") =>
           (bwp.request_limited <=> is_egress(bwp.direction))
    /\ bwp.pc = "done" => (bwp.response_limited <=> is_ingress(bwp.direction))

\* A transform that is waiting has a wake-up coming: the task is runnable
\* or a timer is armed for it.
XfWillBePolled ==
    IF xf.kind = "bandwidth"
    THEN xf.reader.woken \/ xf.reader.timer = "armed"
    ELSE TRUE

\* C35: the latency and the bandwidth response transforms return the
\* response they were given, status, version, headers and body bytes, and
\* they do return: a transform that has not returned is never left without
\* a wake-up.
C35_ResponseTransformIsIdentity ==
    /\ xf.pc = "done" => xf.out = xf.input
    /\ xf.pc = "streaming" => XfWillBePolled

\* C36: a poll of a latency, bandwidth, jitter or packet-loss wrapper
\* returns an error only when it polled the stream under it and that
\* stream returned the error; a poll the wrapper answers itself is Pending
\* or, for packet loss, a ready poll of zero bytes.
C36_WrappersOriginateNoError ==
    wr.pc = "wrapped" =>
        /\ wr.ret = "err" => (wr.inner_polled /\ wr.inner_ret = "err")
        /\ (wr.polls > 0 /\ ~wr.inner_polled) =>
               wr.ret = IF wr.kind = "packetloss" THEN "ready" ELSE "pending"

\* A packet-loss wrapper that has dropped a poll and then passed on the
\* error of its stream.
C36_Witness ==
    /\ wr.pc = "wrapped" /\ wr.kind = "packetloss"
    /\ wr.held > 0
    /\ wr.ret = "err" /\ wr.inner_ret = "err"

\* The settings invariants: DNS rate at most 100, latency mean strictly
\* positive and stddev non-negative, Uniform min not above max, bandwidth
\* rate positive, jitter amplitude and frequency non-negative.
SettingsInvariants(f) ==
    /\ f.kind = "dns" => f.dns_rate \in 0..100
    /\ f.kind = "latency" => f.latency_mean > 0 /\ f.latency_stddev >= 0
    /\ (f.kind = "latency" /\ f.distribution = "uniform")
          => f.latency_min <= f.latency_max
    /\ f.kind = "bandwidth" => f.bandwidth_rate > 0
    /\ f.kind = "jitter" => f.jitter_amplitude >= 0 /\ f.jitter_frequency >= 0

\* C37: every configuration sent to the dataplane, by ProxyConfig::new or by
\* a command-line constructor, satisfies the settings invariants; one that
\* violates them is rejected with InvalidConfiguration and the current
\* configuration stays what it was.
C37_InstalledConfigIsValid ==
    /\ cfg.pc # "none" /\ cfg.sent > 0 => SettingsInvariants(cfg.current)
    /\ (cfg.pc # "none" /\ cfg.last.path # "none"
            /\ ~SettingsInvariants(cfg.last.input))
          => /\ cfg.last.result = "InvalidConfiguration"
             /\ cfg.current = cfg.last.before

\* What the limiter of lim was asked for: rate * unit bytes per second, of
\* the side that was built.
LimAskedBps ==
    to_bytes_per_second(SideUnit(lim.strategy, lim.side),
                        SideRate(lim.strategy, lim.side))

\* C38: for every rate and unit, BandwidthLimitedRead::new and
\* BandwidthLimitedWrite::new either build no wrapper or build one whose
\* quota is rate * unit bytes per second, never its 32 low bits only.
C38_QuotaIsNotTruncated ==
    (lim.pc = "done" /\ lim.result.built) => lim.result.quota = LimAskedBps

\* A request whose faulted/passthrough decision is taken and which is being
\* forwarded, or whose tunnel is being set up.
PastDecision(t) ==
    \/ t.mode = "forward" /\ t.pc \in {"prepare", "request", "execute", "response"}
    \/ t.mode = "connect" /\ t.pc = "connect_plugins"

\* C39: an allow-list update that is pending can take the write lock at once,
\* whatever requests are in flight, and a request in flight never keeps a
\* newly arriving request from being accepted.
C39_HostsUpdateNeverWaits ==
    /\ runner.pc = "hosts_wait" => ENABLED RunnerUpdateUpstreamHosts
    /\ (Len(tasks) < MaxTasks /\ \E i \in 1..Len(tasks) : PastDecision(tasks[i]))
          => ENABLED AcceptClient("forward", ItemTarget)

\* What a tunnel shows of itself: where it stands, its two streams, its
\* lookups, its events and the bytes it has copied each way.
TunnelObservable(t) == [t EXCEPT !.passthrough = TRUE]

\* C40: with the DNS plugin as the only plugin, a faulted CONNECT tunnel has
\* its client and server streams unwrapped, resolves its target with the
\* default resolver only, and stands at every step where the passthrough
\* tunnel stands, with the same events and the same bytes copied, whatever
\* the DNS rate.
C40_DnsFaultLeavesTunnelsAlone ==
    td.pc = "run" =>
       /\ td.faulted.pc \in {"streaming", "copied", "copy_failed"}
             => td.faulted.streams = [client |-> RawStream("client"),
                                      server |-> RawStream("server")]
       /\ \A k \in 1..Len(td.faulted.lookups) :
             td.faulted.lookups[k].by = "default"
       /\ TunnelObservable(td.faulted) = TunnelObservable(td.plain)

C40_Witness ==
    /\ td.pc = "run" /\ td.plugins[1].dns_rate = 100
    /\ ~td.faulted.passthrough /\ td.faulted.pc = "copied"
    /\ td.faulted.to_server > 0 /\ td.faulted.to_client > 0
    /\ Len(td.faulted.lookups) = 1

(***************************************************************************)
(* Sanity of the model.                                                    *)
(***************************************************************************)
TypeOK ==
    /\ counter = Len(tasks) + Len(handles) + 1
    /\ \A i \in 1..Len(tasks) : tasks[i].id = i
    /\ \A i \in 1..Len(bus) : bus[i].type \in EventTypes
    /\ bw.tokens \in 0..bw.max_size
    /\ bw.left >= 0

====
